---- MODULE Spec2Model ----
(***************************************************************************)
(* Verification model of PySpecSDR:                                        *)
(*   - AX.25 deframing and APRS payload parsing (decoders.py,              *)
(*     pyspecaprs.py),                                                     *)
(*   - Morse timing decoder (decoders.py, pyspecsdr.py),                   *)
(*   - signal classifier thresholds (signal_processing.py, pyspecsdr.py),  *)
(*   - IQ correction, the demodulators and the spectrum                    *)
(*     (signal_processing.py),                                             *)
(*   - the main loop with its key handlers, the audio callback and the     *)
(*     bookmark converter (pyspecsdr.py, gqrx2pss.py), as a process.       *)
(*   - the sample-count and gain controls with the settings file          *)
(*     (pyspecsdr.py), as a process,                                       *)
(*   - the audio queue shared by the output stream's callback thread and   *)
(*     the main loop (pyspecsdr.py), as two interleaved processes.         *)
(* The decoders are pure functions: each is an operator computed the way   *)
(* the Python code computes it, and an action applies it to an input drawn *)
(* from a bounded set and records the input and the outcome.               *)
(*                                                                         *)
(* Conventions.  Python lists are sequences; Python indices are 0-based,   *)
(* so s[i] in the code is At(s, i) here.  A Python str is the sequence of  *)
(* its character codes.  A return value is a record [kind, text]: kind is  *)
(* "None" or "str"; "pending" before any call.                             *)
(***************************************************************************)
EXTENDS Integers, Sequences, FiniteSets, TLC

VARIABLES
    ax_call,        \* AX.25: the function last called ("idle" before any call)
    bit_stream,     \* AX.25: argument of the last decode_ax25_frame call
    tx,             \* AX.25: how the test side built the bit stream, if it did
    ax25,           \* AX.25: what the last call did: the deframing loop's final
                    \* state, the bytes handed to decode_aprs_payload, the result
    morse_call,     \* Morse: "idle", then "decode_morse"
    envelope,       \* Morse: |samples| of the window, one amplitude per sample
    sample_rate,    \* Morse: the sample_rate argument
    km_guess,       \* Morse: the two observations k-means drew as first centroids
    fp,             \* Morse: how floating point decided the comparisons of
                    \* exactly equal quantities
    sos,            \* Morse: how the test side keyed the envelope, if it did
    morse,          \* Morse: what the call computed and returned
    cls_call,       \* classifier: "idle", then "classify_signal"
    features,       \* classifier: signal_bw, modulation_index, spectral_flatness
    label,          \* classifier: the label returned
    dsp_call,       \* signal processing: "idle", then the function called
    dsp_in,         \* signal processing: the arguments of the call and what
                    \* numpy and scipy computed on the way
    dsp_out,        \* signal processing: what the call returned
    main,           \* main loop: its position, the playback, recording and
                    \* pipe state, CURRENT_DEMOD
    key,            \* main loop: the key pressed that getch has not read yet
    bookmark_modes, \* main loop: the modes of the bookmark file's entries
    ctl,            \* main loop, settings: SAMPLES, gainindex, the device's
                    \* gain, AGC_ENABLED, the settings file, the lengths of
                    \* the last spectrum line and of its frequency axis
    aud             \* audio: audio_buffer, the callback's and the loop's
                    \* positions in their code, the rows delivered

ax_vars == <<ax_call, bit_stream, tx, ax25>>

morse_vars == <<morse_call, envelope, sample_rate, km_guess, fp, sos, morse>>

cls_vars == <<cls_call, features, label>>

dsp_vars == <<dsp_call, dsp_in, dsp_out>>

main_vars == <<main, key, bookmark_modes>>

ctl_vars == <<ctl>>

audio_vars == <<aud>>

vars == <<ax_call, bit_stream, tx, ax25,
          morse_call, envelope, sample_rate, km_guess, fp, sos, morse,
          cls_call, features, label,
          dsp_call, dsp_in, dsp_out,
          main, key, bookmark_modes,
          ctl, aud>>

(***************************************************************************)
(* Bounds of the model.                                                    *)
(***************************************************************************)
\* longest bit stream enumerated exhaustively
MaxBits == 9
\* longest information field of a structured test frame
MaxInfoLen == 2
\* most bits placed before the start flag / after the frame
MaxPad == 1
\* longest window of samples enumerated exhaustively
MaxEnv == 12
\* most unkeyed samples before and after the SOS keying
MaxLead == 2

\* signal processing: the longest block of samples
MaxBlock == 2
\* main loop: most bookmarks in the bookmark file
MaxBookmarks == 1
\* settings: len(sdr.valid_gains_db), the gains the device offers
MaxGains == 3
\* audio: most blocks the main loop appends in a run
MaxAppends == 3
\* audio: the rows of a demodulated block, and most rows of a queued block
MaxRows == 2
\* audio: most rows the output asks for in one callback
MaxFrames == 3
\* audio: most blocks in a queue the callback is called on by itself
MaxQueue == 3

(***************************************************************************)
(* Python helpers.                                                         *)
(***************************************************************************)
At(s, i) == s[i + 1]

\* s[a:b] for 0 <= a, with Python's clipping of the upper end
Slice(s, a, b) ==
    LET hi == IF b < Len(s) THEN b ELSE Len(s)
    IN  IF a >= hi THEN <<>> ELSE SubSeq(s, a + 1, hi)

\* s[-n:]
LastN(s, n) == IF Len(s) <= n THEN s ELSE SubSeq(s, Len(s) - n + 1, Len(s))

\* s[:-n]
DropLastN(s, n) == IF Len(s) <= n THEN <<>> ELSE SubSeq(s, 1, Len(s) - n)

None == [kind |-> "None", text |-> <<>>]
Str(t) == [kind |-> "str", text |-> t]
Pending == [kind |-> "pending", text |-> <<>>]

(***************************************************************************)
(* decode_ax25_frame                                                       *)
(***************************************************************************)
flag == <<0, 1, 1, 1, 1, 1, 1, 0>>

\* for i in range(len(bit_stream) - 7): if bit_stream[i:i+8] == flag: start = i + 8
RECURSIVE FindStartFrom(_, _)
FindStartFrom(bs, i) ==
    IF i >= Len(bs) - 7 THEN -1
    ELSE IF Slice(bs, i, i + 8) = flag THEN i + 8
    ELSE FindStartFrom(bs, i + 1)

FindStart(bs) == FindStartFrom(bs, 0)

\* one pass through the body of `while i < len(bit_stream) - 7`
\* st = [i, frame_bits, ones_count, ended, iters]
LoopStepKeepsStuffed(bs, st) ==
    LET bit   == At(bs, st.i)
        fb    == Append(st.frame_bits, bit)
        ones  == IF bit = 1 THEN st.ones_count + 1 ELSE 0
    IN  IF ones = 5 /\ st.i + 1 < Len(bs) /\ At(bs, st.i + 1) = 0
        THEN [st EXCEPT !.i = st.i + 1, !.frame_bits = fb, !.ones_count = 0,
                        !.iters = st.iters + 1]
        ELSE IF LastN(fb, 8) = flag
             THEN [st EXCEPT !.i = st.i + 1, !.frame_bits = DropLastN(fb, 8),
                             !.ones_count = ones, !.ended = TRUE,
                             !.iters = st.iters + 1]
             ELSE [st EXCEPT !.i = st.i + 1, !.frame_bits = fb,
                             !.ones_count = ones, !.iters = st.iters + 1]

LoopStepNoAdvance(bs, st) ==
    LET bit   == At(bs, st.i)
        fb    == Append(st.frame_bits, bit)
        ones  == IF bit = 1 THEN st.ones_count + 1 ELSE 0
    IN  IF ones = 5 /\ st.i + 1 < Len(bs) /\ At(bs, st.i + 1) = 0
        THEN [st EXCEPT !.i = st.i + 2, !.frame_bits = fb, !.ones_count = 0,
                        !.iters = st.iters + 1]
        ELSE IF LastN(fb, 8) = flag
             THEN [st EXCEPT !.frame_bits = DropLastN(fb, 8),
                             !.ones_count = ones, !.ended = TRUE,
                             !.iters = st.iters + 1]
             ELSE [st EXCEPT !.frame_bits = fb,
                             !.ones_count = ones, !.iters = st.iters + 1]

LoopStep(bs, st) ==
    LET bit   == At(bs, st.i)
        fb    == Append(st.frame_bits, bit)
        ones  == IF bit = 1 THEN st.ones_count + 1 ELSE 0
    IN  IF ones = 5 /\ st.i + 1 < Len(bs) /\ At(bs, st.i + 1) = 0
        THEN \* skip the stuffed bit; `continue` bypasses the end-flag test
             [st EXCEPT !.i = st.i + 2, !.frame_bits = fb, !.ones_count = 0,
                        !.iters = st.iters + 1]
        ELSE IF LastN(fb, 8) = flag
             THEN [st EXCEPT !.i = st.i + 1, !.frame_bits = DropLastN(fb, 8),
                             !.ones_count = ones, !.ended = TRUE,
                             !.iters = st.iters + 1]
             ELSE [st EXCEPT !.i = st.i + 1, !.frame_bits = fb,
                             !.ones_count = ones, !.iters = st.iters + 1]

\* The loop test, with the pass it guards.  The code has no iteration
\* budget; the budget Len(bs) is what "the loop terminates" is stated
\* against: a run that would need more passes than the stream has bits is
\* reported as not terminated.
LoopExit(bs, st) == st.ended \/ ~(st.i < Len(bs) - 7)

\* at most k passes
RECURSIVE Passes(_, _, _)
Passes(bs, st, k) ==
    IF k = 0 \/ LoopExit(bs, st) \/ st.iters >= Len(bs) THEN st
    ELSE Passes(bs, LoopStep(bs, st), k - 1)

\* The while loop; passes are taken sixteen at a time to keep the
\* evaluation shallow.
RECURSIVE RunLoop(_, _)
RunLoop(bs, st) ==
    IF LoopExit(bs, st) THEN [st EXCEPT !.terminated = TRUE]
    ELSE IF st.iters >= Len(bs) THEN st
    ELSE LET next == Passes(bs, st, 16) IN RunLoop(bs, next)

ExtractFrameBits(bs, start) ==
    RunLoop(bs, [i |-> start, frame_bits |-> <<>>, ones_count |-> 0,
                 ended |-> FALSE, iters |-> 0, terminated |-> FALSE])

\* byte = 0; for j in range(8): byte |= frame_bits[i+j] << (7 - j)
RECURSIVE ByteAtMsbFirst(_, _, _)
ByteAtMsbFirst(fb, i, j) ==
    IF j = 8 THEN 0
    ELSE At(fb, i + j) * (2 ^ (7 - j)) + ByteAtMsbFirst(fb, i, j + 1)

\* byte = 0; for j in range(8): byte |= frame_bits[i+j] << j
RECURSIVE ByteAt(_, _, _)
ByteAt(fb, i, j) ==
    IF j = 8 THEN 0 ELSE At(fb, i + j) * (2 ^ j) + ByteAt(fb, i, j + 1)

\* for i in range(0, len(frame_bits), 8): if i + 8 <= len(frame_bits): ...
RECURSIVE PackFrom(_, _)
PackFrom(fb, i) ==
    IF i >= Len(fb) THEN <<>>
    ELSE IF i + 8 <= Len(fb) THEN <<ByteAt(fb, i, 0)>> \o PackFrom(fb, i + 8)
    ELSE PackFrom(fb, i + 8)

PackBytes(fb) == PackFrom(fb, 0)

(***************************************************************************)
(* decode_aprs_payload                                                     *)
(***************************************************************************)
\* str.isspace() for the codes chr((b >> 1) & 0x7F) can take
IsSpace(c) == c \in {9, 10, 11, 12, 13, 28, 29, 30, 31, 32}

RECURSIVE LStrip(_)
LStrip(s) == IF s # <<>> /\ IsSpace(Head(s)) THEN LStrip(Tail(s)) ELSE s

RECURSIVE RStrip(_)
RStrip(s) ==
    IF s # <<>> /\ IsSpace(s[Len(s)]) THEN RStrip(SubSeq(s, 1, Len(s) - 1)) ELSE s

\* str.strip()
Strip(s) == RStrip(LStrip(s))

\* chr((b >> 1) & 0x7F)
AddrChar(b) == (b \div 2) % 128

\* ''.join([chr((b >> 1) & 0x7F) for b in field]).strip()
Callsign(field) == Strip([k \in 1..Len(field) |-> AddrChar(field[k])])

decode_aprs_payload_min13(fb) ==
    IF Len(fb) < 13 THEN None
    ELSE LET dest   == Callsign(Slice(fb, 0, 6))
             source == Callsign(Slice(fb, 7, 13))
             info   == IF Len(fb) > 15 THEN Slice(fb, 15, Len(fb)) ELSE <<>>
         IN  Str(source \o <<62>> \o dest \o <<58>> \o info)

decode_aprs_payload_swapped(fb) ==
    IF Len(fb) < 14 THEN None
    ELSE LET dest   == Callsign(Slice(fb, 0, 6))
             source == Callsign(Slice(fb, 7, 13))
             info   == IF Len(fb) > 15 THEN Slice(fb, 15, Len(fb)) ELSE <<>>
         IN  Str(dest \o <<62>> \o source \o <<58>> \o info)

\* f"{source}>{dest}:{info}"; '>' is 62 and ':' is 58
decode_aprs_payload(fb) ==
    IF Len(fb) < 14 THEN None
    ELSE LET dest   == Callsign(Slice(fb, 0, 6))
             source == Callsign(Slice(fb, 7, 13))
             info   == IF Len(fb) > 15 THEN Slice(fb, 15, Len(fb)) ELSE <<>>
         IN  Str(source \o <<62>> \o dest \o <<58>> \o info)

\* decode_ax25_frame as a whole: [loop, frame_bytes, parsed, result]
NoLoop == [i |-> -1, frame_bits |-> <<>>, ones_count |-> 0, ended |-> FALSE,
           iters |-> 0, terminated |-> TRUE]

decode_ax25_frame(bs) ==
    LET start == FindStart(bs)
    IN  IF start = -1
        THEN [start |-> -1, loop |-> NoLoop, frame_bytes |-> <<>>,
              parsed |-> FALSE, result |-> None]
        ELSE LET lp == ExtractFrameBits(bs, start)
                 by == PackBytes(lp.frame_bits)
             IN  [start |-> start, loop |-> lp, frame_bytes |-> by,
                  parsed |-> lp.terminated,
                  result |-> IF lp.terminated THEN decode_aprs_payload(by)
                             ELSE Pending]

(***************************************************************************)
(* decode_morse                                                            *)
(*                                                                         *)
(* Times are kept in samples and exactly: the code divides every duration  *)
(* and gap by sample_rate, which scales both sides of each comparison of   *)
(* the decoder alike; only the convergence threshold of k-means is an      *)
(* absolute time.  A centroid or a mean is a fraction <<num, den>> with    *)
(* den > 0.  The code computes in floating point: where two quantities it  *)
(* compares are exactly equal, rounding decides the comparison either way, *)
(* and the record fp says which way: fp.tie is the centroid that is nearer *)
(* at equal distances, fp.mid, fp.letter and fp.word say whether           *)
(* duration < midpoint, gap > 3 dots and gap > 7 dots hold at equality.    *)
(***************************************************************************)
Abs(x) == IF x < 0 THEN -x ELSE x

SeqMax(s) == CHOOSE x \in {s[k] : k \in 1..Len(s)} : \A k \in 1..Len(s) : s[k] <= x

RECURSIVE SeqSum(_)
SeqSum(s) == IF s = <<>> THEN 0 ELSE Head(s) + SeqSum(Tail(s))

\* the elements of a set of numbers in ascending order
Ascending(S) ==
    [k \in 1..Cardinality(S) |->
        CHOOSE x \in S : Cardinality({y \in S : y < x}) = k - 1]

\* envelope / np.max(envelope), 20 * log10(. + 1e-10) > threshold, with
\* threshold = -20: a / peak + 1e-10 > 0.1, which for whole amplitudes is
\* 10 * a >= peak.  An all-zero window gives 0 / 0 = nan, and nan > -20 is
\* False.
Keyed(a, peak) == peak > 0 /\ 10 * a >= peak

Signals(env) ==
    LET peak == SeqMax(env)
    IN  [k \in 1..Len(env) |-> IF Keyed(env[k], peak) THEN 1 ELSE 0]

\* np.where(np.diff(signals.astype(int)) == v)[0]
EdgeTimes(sig, v) ==
    Ascending({i \in 0..(Len(sig) - 2) : At(sig, i + 1) - At(sig, i) = v})

\* the code's table MORSE_CODE: '.' is 46, '-' is 45
MORSE_CODE ==
    (<<46, 45>> :> <<65>>) @@
    (<<45, 46, 46, 46>> :> <<66>>) @@
    (<<45, 46, 45, 46>> :> <<67>>) @@
    (<<45, 46, 46>> :> <<68>>) @@
    (<<46>> :> <<69>>) @@
    (<<46, 46, 45, 46>> :> <<70>>) @@
    (<<45, 45, 46>> :> <<71>>) @@
    (<<46, 46, 46, 46>> :> <<72>>) @@
    (<<46, 46>> :> <<73>>) @@
    (<<46, 45, 45, 45>> :> <<74>>) @@
    (<<45, 46, 45>> :> <<75>>) @@
    (<<46, 45, 46, 46>> :> <<76>>) @@
    (<<45, 45>> :> <<77>>) @@
    (<<45, 46>> :> <<78>>) @@
    (<<45, 45, 45>> :> <<79>>) @@
    (<<46, 45, 45, 46>> :> <<80>>) @@
    (<<45, 45, 46, 45>> :> <<81>>) @@
    (<<46, 45, 46>> :> <<82>>) @@
    (<<46, 46, 46>> :> <<83>>) @@
    (<<45>> :> <<84>>) @@
    (<<46, 46, 45>> :> <<85>>) @@
    (<<46, 46, 46, 45>> :> <<86>>) @@
    (<<46, 45, 45>> :> <<87>>) @@
    (<<45, 46, 46, 45>> :> <<88>>) @@
    (<<45, 46, 45, 45>> :> <<89>>) @@
    (<<45, 45, 46, 46>> :> <<90>>) @@
    (<<46, 45, 45, 45, 45>> :> <<49>>) @@
    (<<46, 46, 45, 45, 45>> :> <<50>>) @@
    (<<46, 46, 46, 45, 45>> :> <<51>>) @@
    (<<46, 46, 46, 46, 45>> :> <<52>>) @@
    (<<46, 46, 46, 46, 46>> :> <<53>>) @@
    (<<45, 46, 46, 46, 46>> :> <<54>>) @@
    (<<45, 45, 46, 46, 46>> :> <<55>>) @@
    (<<45, 45, 45, 46, 46>> :> <<56>>) @@
    (<<45, 45, 45, 45, 46>> :> <<57>>) @@
    (<<45, 45, 45, 45, 45>> :> <<48>>) @@
    (<<45, 45, 46, 46, 45, 45>> :> <<44>>) @@
    (<<46, 45, 46, 45, 46, 45>> :> <<46>>) @@
    (<<46, 46, 45, 45, 46, 46>> :> <<63>>) @@
    (<<45, 46, 46, 45, 46>> :> <<47>>) @@
    (<<45, 46, 46, 46, 46, 45>> :> <<45>>) @@
    (<<45, 46, 45, 45, 46>> :> <<40>>) @@
    (<<45, 46, 45, 45, 46, 45>> :> <<41>>) @@
    (<<46, 45, 46, 46, 46>> :> <<38>>) @@
    (<<45, 45, 45, 46, 46, 46>> :> <<58>>) @@
    (<<45, 46, 45, 46, 45, 46>> :> <<59>>) @@
    (<<45, 46, 46, 46, 45>> :> <<61>>) @@
    (<<46, 45, 46, 45, 46>> :> <<43>>) @@
    (<<46, 45, 46, 46, 45, 46>> :> <<34>>) @@
    (<<46, 46, 46, 45, 46, 46, 45>> :> <<36>>) @@
    (<<46, 45, 45, 46, 45, 46>> :> <<64>>) @@
    (<<46, 46, 45, 45, 46, 45>> :> <<95>>) @@
    (<<46, 46, 46, 45, 45, 45, 46, 46, 46>> :> <<83, 79, 83>>)

Zero == <<0, 1>>

RECURSIVE GCD(_, _)
GCD(a, b) == IF b = 0 THEN a ELSE GCD(b, a % b)

\* a fraction in lowest terms
Frac(num, den) == <<num \div GCD(num, den), den \div GCD(num, den)>>

MorseEmpty(rise, fall) ==
    [kind |-> "ok", text |-> <<>>, dot |-> Zero, dash |-> Zero, gap |-> Zero,
     rise_times |-> rise, fall_times |-> fall, durations |-> <<>>,
     gaps |-> <<>>, symbols |-> <<>>]

MorseRaise(rise, fall) ==
    [kind |-> "raise", text |-> <<>>, dot |-> Zero, dash |-> Zero, gap |-> Zero,
     rise_times |-> rise, fall_times |-> fall, durations |-> <<>>,
     gaps |-> <<>>, symbols |-> <<>>]

(***************************************************************************)
(* scipy.cluster.vq.kmeans(durations, 2): Lloyd's iteration from two       *)
(* observations drawn at random, repeated and the best run kept; every     *)
(* single draw can be the one that is kept, so the draw is the model's     *)
(* nondeterministic input.  A code book is a sequence of centroids.        *)
(***************************************************************************)
\* index of the nearest centroid (argmin): the first of two equal centroids;
\* at equal distances from two different centroids the floating-point
\* distances differ by rounding either way, and centroid tie is the nearer
Nearest(d, book, tie) ==
    IF Len(book) = 1 THEN 1
    ELSE LET d1 == Abs(d * book[1][2] - book[1][1]) * book[2][2]
             d2 == Abs(d * book[2][2] - book[2][1]) * book[1][2]
         IN  IF d2 < d1 THEN 2
             ELSE IF d1 < d2 THEN 1
             ELSE IF book[1][1] * book[2][2] = book[2][1] * book[1][2] THEN 1
             ELSE tie

\* vq(obs, code_book): the code of every observation
Codes(obs, book, tie) == [k \in 1..Len(obs) |-> Nearest(obs[k], book, tie)]

\* the sum of the observations coded j, and their number
RECURSIVE MemberSum(_, _, _, _)
MemberSum(obs, code, j, k) ==
    IF k > Len(obs) THEN <<0, 0>>
    ELSE LET rest == MemberSum(obs, code, j, k + 1)
         IN  IF code[k] = j THEN <<rest[1] + obs[k], rest[2] + 1>> ELSE rest

\* the mean of each centroid's members; a centroid without members is dropped
UpdateBook(obs, code, nc) ==
    SelectSeq([j \in 1..nc |-> MemberSum(obs, code, j, 1)],
              LAMBDA m : m[2] > 0)

\* the mean distance of the observations to their nearest centroid
AvgDist(obs, book, code) ==
    LET den == IF Len(book) = 1 THEN book[1][2] ELSE book[1][2] * book[2][2]
    IN  <<SeqSum([k \in 1..Len(obs) |->
                    Abs(obs[k] * book[code[k]][2] - book[code[k]][1])
                        * (den \div book[code[k]][2])]),
          den * Len(obs)>>

\* the value of the one element of S; {e : x \in {v}} is e with x bound to
\* the value of v
Only(S) == CHOOSE x \in S : TRUE

\* while diff > thresh, thresh = 1e-5 seconds; prev is <<1, 0>> at first
\* (infinity)
RECURSIVE Lloyd(_, _, _, _, _)
Lloyd(obs, book, prev, fs, tie) ==
    Only({Only({IF \/ prev[2] = 0
                   \/ Abs(prev[1] * dist[2] - dist[1] * prev[2])
                          > (fs * prev[2] * dist[2]) \div 100000
                THEN Lloyd(obs, next, dist, fs, tie)
                ELSE next
                : dist \in {AvgDist(obs, book, code)},
                  next \in {UpdateBook(obs, code, Len(book))}})
          : code \in {Codes(obs, book, tie)}})

Kmeans(obs, guess, fs, tie) ==
    Lloyd(obs, <<<<guess[1], 1>>, <<guess[2], 1>>>>, <<1, 0>>, fs, tie)

FracLess(a, b) == a[1] * b[2] < b[1] * a[2]

\* np.min(centroids), np.max(centroids)
BookMin(book) ==
    IF Len(book) = 2 /\ FracLess(book[2], book[1]) THEN book[2] ELSE book[1]

BookMax(book) ==
    IF Len(book) = 2 /\ FracLess(book[1], book[2]) THEN book[2] ELSE book[1]

IsDotBelowDot(d, dot, dash, at_equality) ==
    \/ d * dot[2] < dot[1]
    \/ d * dot[2] = dot[1] /\ at_equality

\* duration < (dot_duration + dash_duration) / 2
IsDot(d, dot, dash, at_equality) ==
    \/ 2 * d * dot[2] * dash[2] < dot[1] * dash[2] + dash[1] * dot[2]
    \/ 2 * d * dot[2] * dash[2] = dot[1] * dash[2] + dash[1] * dot[2]
          /\ at_equality

\* gap >= dot_duration * n
GapAtLeast(g, dot, n, at_equality) == g * dot[2] >= n * dot[1]

\* gap > dot_duration * n
GapOver(g, dot, n, at_equality) ==
    \/ g * dot[2] > n * dot[1]
    \/ g * dot[2] = n * dot[1] /\ at_equality

\* the loop over the pulses, from pulse i (0-based) on: the symbols appended
\* to morse_symbols, a letter being a string of '.' and '-' and a word gap
\* the string ' '
RECURSIVE Letters(_, _, _, _, _, _, _)
Letters(durations, gaps, dot, dash, i, current_letter, round) ==
    IF i >= Len(durations)
    THEN IF current_letter # <<>> THEN <<current_letter>> ELSE <<>>
    ELSE LET letter == Append(current_letter,
                              IF IsDot(At(durations, i), dot, dash, round.mid)
                              THEN 46 ELSE 45)
         IN  IF i < Len(gaps) /\ GapOver(At(gaps, i), dot, 3, round.letter)
             THEN <<letter>>
                  \o (IF GapOver(At(gaps, i), dot, 7, round.word)
                      THEN <<<<32>>>> ELSE <<>>)
                  \o Letters(durations, gaps, dot, dash, i + 1, <<>>, round)
             ELSE Letters(durations, gaps, dot, dash, i + 1, letter, round)

\* decoded_text
RECURSIVE Translate(_)
Translate(symbols) ==
    IF symbols = <<>> THEN <<>>
    ELSE (IF Head(symbols) = <<32>> THEN <<32>>
          ELSE IF Head(symbols) \in DOMAIN MORSE_CODE THEN MORSE_CODE[Head(symbols)]
          ELSE <<63>>)
         \o Translate(Tail(symbols))

\* from "Classify dots and dashes" to the return
MorseText(rise, fall, durations, gaps, dot, dash, round) ==
    Only({[kind |-> "ok", text |-> Translate(symbols),
           dot |-> Frac(dot[1], dot[2]), dash |-> Frac(dash[1], dash[2]),
           gap |-> IF Len(gaps) > 0 THEN Frac(SeqSum(gaps), Len(gaps))
                   ELSE Zero,
           rise_times |-> rise, fall_times |-> fall, durations |-> durations,
           gaps |-> gaps, symbols |-> symbols]
          : symbols \in {Letters(durations, gaps, dot, dash, 0, <<>>, round)}})

\* from "Estimate dot/dash threshold" on
MorseClassify(rise, fall, durations, gaps, guess, fs, round) ==
    IF Len(durations) = 0
    THEN \* np.min of an empty array raises ValueError
         MorseRaise(rise, fall)
    ELSE IF Len(durations) > 1
    THEN Only({MorseText(rise, fall, durations, gaps,
                         BookMin(centroids), BookMax(centroids), round)
               : centroids \in {Kmeans(durations, guess, fs, round.tie)}})
    ELSE MorseText(rise, fall, durations, gaps,
                   <<durations[1], 1>>, <<3 * durations[1], 1>>, round)

MorseTimesNoEmptyTest(rise, fall, guess, fs, round) ==
    IF Len(rise) # Len(fall)
    THEN MorseRaise(rise, fall)
    ELSE Only({MorseClassify(rise, fall, durations, gaps, guess, fs, round)
               : durations \in {[k \in 1..Len(rise) |-> fall[k] - rise[k]]},
                 gaps \in {[k \in 1..(Len(rise) - 1) |-> rise[k + 1] - fall[k]]}})

\* fall_times - rise_times, rise_times[1:] - fall_times[:-1], and the
\* second return
MorseTimes(rise, fall, guess, fs, round) ==
    IF Len(rise) # Len(fall)
    THEN \* arrays of unequal shapes
         MorseRaise(rise, fall)
    ELSE Only({IF Len(durations) = 0 THEN MorseEmpty(rise, fall)
               ELSE MorseClassify(rise, fall, durations, gaps, guess, fs, round)
               : durations \in {[k \in 1..Len(rise) |-> fall[k] - rise[k]]},
                 gaps \in {[k \in 1..(Len(rise) - 1) |-> rise[k + 1] - fall[k]]}})

\* the pairing without `fall_times = fall_times[1:]`
MorsePairedKeepsFall(rise_times, fall_times, guess, fs, round) ==
    Only({MorseTimes(rise, fall_times, guess, fs, round)
          : rise \in {IF Len(rise_times) > Len(fall_times)
                      THEN DropLastN(rise_times, 1) ELSE rise_times}})

\* from "Ensure we have matching rises and falls" on
MorsePaired(rise_times, fall_times, guess, fs, round) ==
    Only({Only({MorseTimes(rise, fall, guess, fs, round)
                : rise \in {IF Len(rise_times) > Len(fall)
                            THEN DropLastN(rise_times, 1) ELSE rise_times}})
          : fall \in {IF fall_times[1] < rise_times[1] THEN Tail(fall_times)
                      ELSE fall_times}})

\* signals, rise_times, fall_times and the first return
MorseEdges(signals, guess, fs, round) ==
    Only({IF Len(rise_times) = 0 \/ Len(fall_times) = 0
          THEN MorseEmpty(rise_times, fall_times)
          ELSE MorsePaired(rise_times, fall_times, guess, fs, round)
          : rise_times \in {EdgeTimes(signals, 1)},
            fall_times \in {EdgeTimes(signals, -1)}})

\* decode_morse(samples, sample_rate) with the default threshold, on a
\* window of at least one sample
decode_morse(env, guess, fs, round) ==
    Only({MorseEdges(signals, guess, fs, round) : signals \in {Signals(env)}})

\* _kpoints(obs, 2): two distinct observations as the first centroids, for
\* every two observations the draw can give; no draw for fewer than two
\* pulses
Guesses(durations) ==
    IF Len(durations) < 2 THEN {<<0, 0>>}
    ELSE {<<durations[g[1]], durations[g[2]]>> :
             g \in {h \in (1..Len(durations)) \X (1..Len(durations)) :
                      h[1] # h[2]}}

\* the outcomes of the comparisons of equal quantities
Roundings ==
    [tie : {1, 2}, mid : BOOLEAN, letter : BOOLEAN, word : BOOLEAN]

Exact == [tie |-> 1, mid |-> FALSE, letter |-> FALSE, word |-> FALSE]

(***************************************************************************)
(* Test side: bit streams built from frame bytes.                          *)
(***************************************************************************)
\* the bits of one byte, LSB first
ByteBits(b) == [j \in 1..8 |-> (b \div (2 ^ (j - 1))) % 2]

\* the bits of the frame bytes, LSB first
RECURSIVE BitsOf(_)
BitsOf(F) == IF F = <<>> THEN <<>> ELSE ByteBits(Head(F)) \o BitsOf(Tail(F))

\* a 0 stuffed after every run of five consecutive 1s; ones is the length of
\* the run of 1s that precedes bits
RECURSIVE StuffFrom(_, _)
StuffFrom(bits, ones) ==
    IF bits = <<>> THEN [out |-> <<>>, ones |-> ones]
    ELSE LET b    == Head(bits)
             full == b = 1 /\ ones = 4
             rest == StuffFrom(Tail(bits),
                               IF b = 0 \/ full THEN 0 ELSE ones + 1)
         IN  [out  |-> (IF full THEN <<1, 0>> ELSE <<b>>) \o rest.out,
              ones |-> rest.ones]

\* the stuffed bits of the frame bytes, byte by byte
RECURSIVE StuffBytes(_, _)
StuffBytes(F, ones) ==
    IF F = <<>> THEN <<>>
    ELSE LET r == StuffFrom(ByteBits(Head(F)), ones)
         IN  r.out \o StuffBytes(Tail(F), r.ones)

Stuff(F) == StuffBytes(F, 0)

RECURSIVE BitSeqs(_)
BitSeqs(n) ==
    IF n = 0 THEN {<<>>}
    ELSE LET shorter == BitSeqs(n - 1)
         IN  shorter \cup {Append(s, b) : s \in {t \in shorter : Len(t) = n - 1},
                                          b \in {0, 1}}

\* NUL, TAB << 1, ' ' << 1 (with and without the extension bit), the flag
\* byte, 'A' << 1, a byte ending in six 1-bits, all ones
TestBytes == {0, 18, 64, 65, 126, 130, 252, 255}
BaseBytes == {64, 130}

\* n bytes b, with byte c at index p
PointFrame(n, b, p, c) == [k \in 1..n |-> IF k = p + 1 THEN c ELSE b]

FrameLens == {0, 1, 2} \cup (13 .. 15 + MaxInfoLen)

TestFrames ==
    {<<b>> : b \in 0..255}
    \cup {PointFrame(n, b, p, c) : n \in FrameLens, b \in BaseBytes,
                                   p \in 0..(15 + MaxInfoLen), c \in TestBytes}

\* what follows the stuffed frame: nothing (no closing flag), the closing
\* flag at the very end of the stream, the closing flag and an idle flag
Tails == {<<>>, flag, flag \o flag}

NotBuilt == [built |-> FALSE, frame |-> <<>>, pre |-> <<>>, tail |-> <<>>]

(***************************************************************************)
(* Test side: keyed envelopes.                                             *)
(***************************************************************************)
Run(level, n) == [k \in 1..n |-> level]

\* SOS as runs <<keyed, units>>: dot 1, dash 3, element gap 1, letter gap 3
SosKeying ==
    <<<<1, 1>>, <<0, 1>>, <<1, 1>>, <<0, 1>>, <<1, 1>>, <<0, 3>>,
      <<1, 3>>, <<0, 1>>, <<1, 3>>, <<0, 1>>, <<1, 3>>, <<0, 3>>,
      <<1, 1>>, <<0, 1>>, <<1, 1>>, <<0, 1>>, <<1, 1>>>>

RECURSIVE KeyRuns(_, _, _, _)
KeyRuns(runs, unit, hi, lo) ==
    IF runs = <<>> THEN <<>>
    ELSE Run(IF Head(runs)[1] = 1 THEN hi ELSE lo, Head(runs)[2] * unit)
         \o KeyRuns(Tail(runs), unit, hi, lo)

\* lead unkeyed samples, SOS with a dot of unit samples, trail unkeyed samples
SosEnvelope(unit, lead, trail, hi, lo) ==
    Run(lo, lead) \o KeyRuns(SosKeying, unit, hi, lo) \o Run(lo, trail)

\* the samples of a dot of 60 ms
UnitSamples(fs) == (60 * fs) \div 1000

SosRates == {50, 100}

\* the rate show_morse_decoder sets
WindowRates == {48000}

\* <<keyed level, unkeyed level>>: silence between the pulses, a floor
\* exactly 20 dB down (which counts as keyed), a constant carrier, an
\* all-zero window; DecodeSos has the noise floor 26 dB down
LevelSchemes == {<<20, 0>>, <<20, 2>>, <<1, 1>>, <<0, 0>>}

NoSos == [built |-> FALSE, unit |-> 0, lead |-> 0, trail |-> 0]

(***************************************************************************)
(* classify_signal, from "Classification logic" on.  The bandwidth is in   *)
(* Hz, the modulation index and the spectral flatness in thousandths.      *)
(***************************************************************************)
classify_signal_from150k(signal_bw, modulation_index, spectral_flatness) ==
    IF signal_bw >= 150000
    THEN IF modulation_index > 800 THEN "FM_BROADCAST" ELSE "UNKNOWN"
    ELSE IF 8000 <= signal_bw /\ signal_bw <= 16000
    THEN IF modulation_index < 300 THEN "NARROW_FM" ELSE "UNKNOWN"
    ELSE IF 8000 <= signal_bw /\ signal_bw <= 10000
    THEN IF modulation_index < 200 /\ spectral_flatness < 300
         THEN "AM_BROADCAST" ELSE "UNKNOWN"
    ELSE IF 2000 <= signal_bw /\ signal_bw <= 3000
    THEN IF spectral_flatness < 200 THEN "SSB" ELSE "UNKNOWN"
    ELSE IF spectral_flatness > 700 THEN "DIGITAL"
    ELSE "UNKNOWN"

classify_signal(signal_bw, modulation_index, spectral_flatness) ==
    IF signal_bw > 150000
    THEN IF modulation_index > 800 THEN "FM_BROADCAST" ELSE "UNKNOWN"
    ELSE IF 8000 <= signal_bw /\ signal_bw <= 16000
    THEN IF modulation_index < 300 THEN "NARROW_FM" ELSE "UNKNOWN"
    ELSE IF 8000 <= signal_bw /\ signal_bw <= 10000
    THEN IF modulation_index < 200 /\ spectral_flatness < 300
         THEN "AM_BROADCAST" ELSE "UNKNOWN"
    ELSE IF 2000 <= signal_bw /\ signal_bw <= 3000
    THEN IF spectral_flatness < 200 THEN "SSB" ELSE "UNKNOWN"
    ELSE IF spectral_flatness > 700 THEN "DIGITAL"
    ELSE "UNKNOWN"

\* the values on and next to every threshold, and values well inside
BwValues ==
    {-5000, 0, 1999, 2000, 2399, 2400, 2500, 3000, 3001, 5000, 7999, 8000,
     9000, 10000, 10001, 16000, 16001, 50000, 149999, 150000, 150001, 200000}

IndexValues == {0, 100, 199, 200, 299, 300, 500, 800, 801, 810, 2000}

FlatnessValues == {1, 100, 199, 200, 299, 300, 500, 700, 701, 900, 1000}

NoFeatures == [signal_bw |-> 0, modulation_index |-> 0, spectral_flatness |-> 0]

(***************************************************************************)
(* Floating-point values of the demodulator chain.  A real value is a      *)
(* record [cls, sgn, n, d]: cls "num" is the finite value                  *)
(* sgn * sqrt(n / d) with n / d in lowest terms (every finite value the    *)
(* chain computes from integer samples is a signed square root of a        *)
(* fraction), "nan" is NaN, "inf" is sgn * infinity, and "rounded" is a    *)
(* finite value that rounding errors alone determine.  numpy divides by    *)
(* zero without raising: x / 0 is NaN for x = 0 and +-inf otherwise.       *)
(***************************************************************************)
Sign(u) == IF u > 0 THEN 1 ELSE IF u < 0 THEN -1 ELSE 0

Num(s, n, d) ==
    IF n = 0 \/ s = 0
    THEN [cls |-> "num", sgn |-> 0, n |-> 0, d |-> 1]
    ELSE [cls |-> "num", sgn |-> s, n |-> Frac(n, d)[1], d |-> Frac(n, d)[2]]

RInt(u) == Num(Sign(u), u * u, 1)

RZero == RInt(0)

NaN == [cls |-> "nan", sgn |-> 0, n |-> 0, d |-> 1]

Inf(s) == [cls |-> "inf", sgn |-> s, n |-> 0, d |-> 1]

Rounded == [cls |-> "rounded", sgn |-> 0, n |-> 0, d |-> 1]

\* a complex sample
Cx(re, im) == [re |-> re, im |-> im]

CxInt(u, v) == Cx(RInt(u), RInt(v))

CxNaN == Cx(NaN, NaN)

Finite(x) == x.cls \in {"num", "rounded"}

CxFinite(c) == Finite(c.re) /\ Finite(c.im)

\* np.isfinite(block).all() for a block of real values
AllFinite(block) == \A k \in 1..Len(block) : Finite(block[k])

CxAllFinite(block) == \A k \in 1..Len(block) : CxFinite(block[k])

\* x * y of two "num" values
RMul(x, y) == Num(x.sgn * y.sgn, x.n * y.n, x.d * y.d)

\* |x| < |y| of two "num" values
RMagLess(x, y) == x.n * y.d < y.n * x.d

\* the sign of x + y of two "num" values
RSumSign(x, y) ==
    IF x.sgn = y.sgn THEN x.sgn
    ELSE IF x.sgn = 0 THEN y.sgn
    ELSE IF y.sgn = 0 THEN x.sgn
    ELSE IF RMagLess(x, y) THEN y.sgn
    ELSE IF RMagLess(y, x) THEN x.sgn
    ELSE 0

\* x / p for a real x and a peak p >= 0 that is "num" or "nan"
RDiv(x, p) ==
    IF x.cls = "nan" \/ p.cls = "nan" THEN NaN
    ELSE IF p.sgn = 0
         THEN IF x.cls = "inf" THEN x
              ELSE IF x.sgn = 0 THEN NaN ELSE Inf(x.sgn)
    ELSE IF x.cls = "inf" THEN x
    ELSE Num(x.sgn, x.n * p.d, x.d * p.n)

\* x * sqrt(fn / fd) for a positive factor
RScale(x, fn, fd) ==
    IF x.cls = "num" THEN Num(x.sgn, x.n * fn, x.d * fd) ELSE x

\* np.max(np.abs(block)): NaN if any element is NaN
Peak(block) ==
    IF \E k \in 1..Len(block) : block[k].cls = "nan" THEN NaN
    ELSE LET mags == {Num(1, block[k].n, block[k].d) : k \in 1..Len(block)}
         IN  CHOOSE p \in mags : \A q \in mags : ~RMagLess(p, q)

\* Python's max(a, b) of two peaks
Max2(a, b) ==
    IF a.cls = "nan" THEN a
    ELSE IF b.cls = "nan" THEN a
    ELSE IF RMagLess(a, b) THEN b ELSE a

(***************************************************************************)
(* iq_correction.  The samples are complex integers u + jv.  With          *)
(* N = len(samples) and the sums Su, Sv, Suu, Svv, Suv of u, v, u*u, v*v   *)
(* and u*v over the block:                                                 *)
(*   input_power    = (N(Suu + Svv) - Su^2 - Sv^2) / N^2                   *)
(*   q_amplitude^2  = 2 Svv / N                                            *)
(*   alpha_est^2    = Suu / Svv                                            *)
(*   sin_phi_est^2  = Suv^2 / (Suu Svv)                                    *)
(*   cos_phi_est^2  = (Suu Svv - Suv^2) / (Suu Svv)                        *)
(*   sin_phi_est / alpha_est = Suv / Suu                                   *)
(* and the value returned for sample k is                                  *)
(*   re = u_k sqrt(Suu Svv K),  im = (v_k Suu - u_k Suv) sqrt(K),          *)
(*   K  = P / X,  P = N(Suu + Svv) - Su^2 - Sv^2,                          *)
(*   X  = Suu Svv (N Suu - Su^2) + N Suu (Suu Svv - Suv^2)                 *)
(*        - (Sv Suu - Su Suv)^2.                                           *)
(* A division by zero yields inf or NaN, and NaN spreads through every     *)
(* later step to every sample returned.                                    *)
(***************************************************************************)
Su(samples) == SeqSum([k \in 1..Len(samples) |-> samples[k][1]])

Sv(samples) == SeqSum([k \in 1..Len(samples) |-> samples[k][2]])

Suu(samples) == SeqSum([k \in 1..Len(samples) |-> samples[k][1] * samples[k][1]])

Svv(samples) == SeqSum([k \in 1..Len(samples) |-> samples[k][2] * samples[k][2]])

Suv(samples) == SeqSum([k \in 1..Len(samples) |-> samples[k][1] * samples[k][2]])

\* N^2 * var(samples - mean(samples))
InputPower(samples) ==
    Len(samples) * (Suu(samples) + Svv(samples))
        - Su(samples) * Su(samples) - Sv(samples) * Sv(samples)

\* Suu * Svv * (1 - sin_phi_est^2)
CosNumerator(samples) ==
    Suu(samples) * Svv(samples) - Suv(samples) * Suv(samples)

\* the divisors of iq_correction that are zero, in the order the code
\* divides by them
ZeroDivisors(samples, cos_rounding) ==
    IF Svv(samples) = 0 THEN {"q_amplitude"}
    ELSE IF Suu(samples) = 0 THEN {"alpha_est"}
    ELSE IF CosNumerator(samples) = 0 /\ cos_rounding = "zero"
         THEN {"cos_phi_est"}
    ELSE {}

VarCorrected(samples) ==
    Suu(samples) * Svv(samples)
            * (Len(samples) * Suu(samples) - Su(samples) * Su(samples))
        + Len(samples) * Suu(samples) * CosNumerator(samples)
        - (Sv(samples) * Suu(samples) - Su(samples) * Suv(samples))
            * (Sv(samples) * Suu(samples) - Su(samples) * Suv(samples))

CorrectedSample(samples, k) ==
    LET u == samples[k][1]
        w == samples[k][2] * Suu(samples) - u * Suv(samples)
        P == InputPower(samples)
        X == VarCorrected(samples)
    IN  Cx(Num(Sign(u), u * u * Suu(samples) * Svv(samples) * P, X),
           Num(Sign(w), w * w * P, X))

\* cos_rounding says what 1 - sin_phi_est ** 2 is in floating point when it
\* is exactly 0: "zero", "tiny" (positive) or "negative" (its square root is
\* NaN).  A block of equal samples has input_power 0 and equal corrected
\* samples: the final factor is sqrt(0 / 0).
iq_correction(samples, cos_rounding) ==
    LET n == Len(samples)
        zero == ZeroDivisors(samples, cos_rounding)
    IN  IF zero # {}
        THEN [samples |-> [k \in 1..n |-> CxNaN], zero_divisors |-> zero]
        ELSE IF CosNumerator(samples) = 0
        THEN [samples |-> [k \in 1..n |->
                            IF cos_rounding = "tiny" /\ InputPower(samples) # 0
                            THEN Cx(Rounded, Rounded) ELSE CxNaN],
              zero_divisors |-> {}]
        ELSE [samples |-> [k \in 1..n |-> CorrectedSample(samples, k)],
              zero_divisors |-> {}]

(***************************************************************************)
(* The demodulators.  scipy's filters (firwin and lfilter, butter and      *)
(* sosfilt, decimate, hilbert) are linear and start from rest: they map    *)
(* the zero signal to the zero signal and a NaN signal to a NaN signal.    *)
(* Their output for any other signal is an input of the model, drawn from  *)
(* the finite signals that are not all zero.  The decimation factor is 1,  *)
(* so a filter's output is as long as its input.                           *)
(***************************************************************************)
IntBlocks(len, levels) == [1..len -> levels]

\* the levels of a filter's output
PreLevels == {-2, 0, 1}

NaNBlock(len) == [k \in 1..len |-> NaN]

ZeroBlock(len) == [k \in 1..len |-> RZero]

\* what the filters can return for a signal of the given kind and length
FilterOutputs(kind, len) ==
    CASE kind = "nan"  -> {NaNBlock(len)}
      [] kind = "zero" -> {ZeroBlock(len)}
      [] OTHER -> {[k \in 1..len |-> RInt(b[k])] :
                      b \in {c \in IntBlocks(len, PreLevels) :
                                \E k \in 1..len : c[k] # 0}}

\* np.angle(samples[1:] * np.conj(samples[:-1]))[k] is 0: the product is a
\* real number >= 0
AngleIsZero(next, prev) ==
    /\ RMul(next.im, prev.re) = RMul(next.re, prev.im)
    /\ RSumSign(RMul(next.re, prev.re), RMul(next.im, prev.im)) >= 0

\* the kind of demod, the FM discriminator's output
FmKind(samples) ==
    IF ~CxAllFinite(samples) THEN "nan"
    ELSE IF \E k \in 1..Len(samples) :
                samples[k].re.cls = "rounded" \/ samples[k].im.cls = "rounded"
         THEN "some"
    ELSE IF \A k \in 1..(Len(samples) - 1) : AngleIsZero(samples[k + 1], samples[k])
         THEN "zero"
    ELSE "some"

\* np.abs(sample) ** 2
Abs2(c) == Frac(c.re.n * c.im.d + c.im.n * c.re.d, c.re.d * c.im.d)

\* the kind of envelope - np.mean(envelope)
AmKind(samples) ==
    IF ~CxAllFinite(samples) THEN "nan"
    ELSE IF \E k \in 1..Len(samples) :
                samples[k].re.cls = "rounded" \/ samples[k].im.cls = "rounded"
         THEN "some"
    ELSE IF \A k \in 1..Len(samples) : Abs2(samples[k]) = Abs2(samples[1])
         THEN "zero"
    ELSE "some"

\* the kind of np.real(hilbert(np.real(lfilter(taps, 1.0, samples)))), which
\* is lfilter(taps, 1.0, np.real(samples)): the taps are real
SsbKind(samples) ==
    IF ~CxAllFinite(samples) THEN "nan"
    ELSE IF \A k \in 1..Len(samples) : samples[k].re = RZero THEN "zero"
    ELSE "some"

\* the signals to be normalized that the code can compute from the samples
\* in each mode; WFM has two, left and right
ToNormalize(mode, samples) ==
    CASE mode = "NFM" ->
            FilterOutputs(FmKind(samples), Len(samples) - 1)
      [] mode = "WFM" ->
            LET outs == FilterOutputs(FmKind(samples), Len(samples) - 1)
            IN  IF FmKind(samples) = "some"
                THEN (outs \cup {ZeroBlock(Len(samples) - 1)})
                        \X (outs \cup {ZeroBlock(Len(samples) - 1)})
                     \ {<<ZeroBlock(Len(samples) - 1), ZeroBlock(Len(samples) - 1)>>}
                ELSE outs \X outs
      [] mode = "AM" ->
            FilterOutputs(AmKind(samples), Len(samples))
      [] mode \in {"USB", "LSB"} ->
            FilterOutputs(SsbKind(samples), Len(samples))
      [] OTHER -> {<<>>}

\* audio / np.max(np.abs(audio)) * 0.95
PeakNormalize(audio) ==
    LET peak == Peak(audio)
    IN  [k \in 1..Len(audio) |-> RScale(RDiv(audio[k], peak), 361, 400)]

\* an ndarray returned: its shape and its rows
NdArray(rows, width) == [kind |-> "ndarray", shape |-> <<Len(rows), width>>, rows |-> rows]

mono_to_stereo(mono_audio) ==
    NdArray([k \in 1..Len(mono_audio) |-> <<mono_audio[k], mono_audio[k]>>], 2)

\* audio is decimate(filtered, decimation_factor)
demodulate_nfm(audio) == mono_to_stereo(PeakNormalize(audio))

\* max_val = max(np.max(np.abs(left)), np.max(np.abs(right)));
\* left /= max_val; right /= max_val; np.column_stack((left, right))
demodulate_wfm(left, right) ==
    LET max_val == Max2(Peak(left), Peak(right))
    IN  NdArray([k \in 1..Len(left) |->
                    <<RDiv(left[k], max_val), RDiv(right[k], max_val)>>], 2)

demodulate_am(filtered_envelope) == mono_to_stereo(PeakNormalize(filtered_envelope))

\* demod is np.real(analytical), the same for lower = True and False
demodulate_ssb(demod) == mono_to_stereo(PeakNormalize(demod))

DemodModes == {"NFM", "WFM", "AM", "USB", "LSB", "RAW"}

NormalizingModes == {"NFM", "WFM", "AM", "USB", "LSB"}

\* the demodulator of a normalizing mode, called on the samples; filtered is
\* what scipy's filters made of them
Demodulator(mode, filtered) ==
    CASE mode = "NFM" -> demodulate_nfm(filtered)
      [] mode = "WFM" -> demodulate_wfm(filtered[1], filtered[2])
      [] mode = "AM"  -> demodulate_am(filtered)
      [] mode = "USB" -> demodulate_ssb(filtered)
      [] mode = "LSB" -> demodulate_ssb(filtered)

\* variant: an unknown mode raises ValueError
demodulate_signal_raising(samples, mode, corrected, filtered) ==
    IF mode \in NormalizingModes THEN Demodulator(mode, filtered)
    ELSE IF mode = "RAW"
    THEN NdArray([k \in 1..Len(corrected) |-> <<corrected[k].re>>], 1)
    ELSE [kind |-> "ValueError", shape |-> <<0, 0>>, rows |-> <<>>]

\* corrected is iq_correction(samples); the last line returns
\* np.zeros((len(samples), 2)) for a mode that is not recognized
demodulate_signal(samples, mode, corrected, filtered) ==
    IF mode \in NormalizingModes THEN Demodulator(mode, filtered)
    ELSE IF mode = "RAW"
    THEN NdArray([k \in 1..Len(corrected) |-> <<corrected[k].re>>], 1)
    ELSE NdArray([k \in 1..Len(samples) |-> <<RZero, RZero>>], 2)

(***************************************************************************)
(* compute_fft.  The dB magnitude 20 * log10(|fft| + 1e-10) of each bin    *)
(* is an input of the model: numpy's FFT returns one bin per sample, every *)
(* |fft| is >= 0, so a magnitude is at least 20 * log10(1e-10) = -200 dB,  *)
(* and the spectrum of the zero block is -200 dB in every bin.             *)
(***************************************************************************)
system_gain == -30

ref_level == -70

\* np.clip(x, lo, hi)
Clip(x, lo, hi) == IF x < lo THEN lo ELSE IF x > hi THEN hi ELSE x

\* variant: the calibrated spectrum is returned as it is
compute_fft_unclipped(samples, magnitude_db) ==
    [k \in 1..Len(magnitude_db) |-> magnitude_db[k] + system_gain + ref_level]

compute_fft(samples, magnitude_db) ==
    [k \in 1..Len(magnitude_db) |->
        Clip(magnitude_db[k] + system_gain + ref_level, -100, -20)]

FloorDb == -200

MagnitudeLevels == {FloorDb, -1, 0, 40, 79, 80, 81, 300}

\* the dB magnitudes numpy can compute for a block of samples
Magnitudes(samples) ==
    IF \A k \in 1..Len(samples) : samples[k] = <<0, 0>>
    THEN {[k \in 1..Len(samples) |-> FloorDb]}
    ELSE [1..Len(samples) -> MagnitudeLevels]

(***************************************************************************)
(* Inputs of the signal-processing calls.                                  *)
(***************************************************************************)
SampleLevels == {-1, 0, 1}

\* blocks of complex integer samples <<u, v>>, at least two samples long
SampleBlocks ==
    UNION {[1..n -> SampleLevels \X SampleLevels] : n \in 2..MaxBlock}

CxBlock(samples) == [k \in 1..Len(samples) |-> CxInt(samples[k][1], samples[k][2])]

\* the mode arguments: the six modes and names that are none of them
ModeArguments == DemodModes \cup {"FM", "CW", ""}

\* the ways rounding can matter to iq_correction on these samples
CosRoundings(samples) ==
    IF Svv(samples) # 0 /\ Suu(samples) # 0 /\ CosNumerator(samples) = 0
    THEN {"zero", "tiny", "negative"}
    ELSE {"zero"}

NoDspIn == [samples |-> <<>>, mode |-> "", cos_rounding |-> "zero",
            filtered |-> <<>>, magnitude_db |-> <<>>]

NoDspOut == [corrected |-> <<>>, zero_divisors |-> {},
             result |-> [kind |-> "pending", shape |-> <<0, 0>>, rows |-> <<>>]]

(***************************************************************************)
(* The main loop of pyspecsdr.py.  main.pc is the loop's position: "read"  *)
(* (sdr.read_samples), "process" (demodulation, spectrum, drawing), "key"  *)
(* (stdscr.getch and the key's handler), "tail" (WAV and pipe writes);     *)
(* "exited" after break and "crashed" after an exception left the loop,    *)
(* both with main's finally clause run; "start" before main runs.          *)
(* sounddevice is imported, or main fails before the loop: AUDIO_AVAILABLE *)
(* is TRUE in the loop.                                                    *)
(***************************************************************************)
AUDIO_AVAILABLE == TRUE

\* list(DEMOD_MODES.keys())
DemodMenu == <<"NFM", "WFM", "AM", "USB", "LSB", "RAW">>

\* the keys the user presses; "other" is any key whose handler changes
\* nothing that is modelled here
Keys == {"q", "I", "a", "R", "d", "l", "k", "other"}

MainStart(audio_available) ==
    [pc |-> "read", attempt |-> 0, sdr_open |-> TRUE,
     audio_available |-> audio_available, audio_enabled |-> FALSE,
     stream |-> "None", audio_recording |-> FALSE, wav_file |-> "None",
     USE_PIPE |-> FALSE, PIPE_FILE |-> "None", pipe_exists |-> FALSE,
     CURRENT_DEMOD |-> "NFM", buffered |-> FALSE, demodulated |-> 0,
     error |-> "none"]

\* audio_buffer.append(audio), n times; buffered is len(audio_buffer) > 0
Appended(m, n) == [m EXCEPT !.buffered = @ \/ n > 0]

\* main's finally clause: sdr.close(); the stream stopped and closed and the
\* WAV file closed if there is one
Finally(m) ==
    [m EXCEPT !.sdr_open = FALSE,
              !.stream = IF @ = "running" THEN "closed" ELSE @,
              !.wav_file = IF @ = "open" THEN "closed" ELSE @]

\* the demodulate_signal calls of one iteration
Demodulations(m) ==
    (IF AUDIO_AVAILABLE /\ m.audio_enabled THEN 1 ELSE 0)
        + (IF m.USE_PIPE THEN 1 ELSE 0)

\* start_pipe_recording: create_pipe, open_file_pipe, USE_PIPE = True
start_pipe_recording(m) ==
    [m EXCEPT !.pipe_exists = TRUE, !.PIPE_FILE = "open", !.USE_PIPE = TRUE]

\* stop_pipe_recording: USE_PIPE = False, close_file_pipe (which names
\* fifo.close without calling it), clean_pipe, PIPE_FILE = None
stop_pipe_recording(m) ==
    [m EXCEPT !.USE_PIPE = FALSE, !.pipe_exists = FALSE, !.PIPE_FILE = "None"]

\* elif key == ord('I')
KeyI(m) ==
    IF ~m.USE_PIPE THEN start_pipe_recording(m)
    ELSE IF m.audio_recording THEN stop_pipe_recording(m)
    ELSE m

\* elif key == ord('a'); started says whether sd.OutputStream could be
\* opened and started
KeyA(m, started) ==
    IF m.USE_PIPE THEN m
    ELSE IF ~m.audio_available THEN m
    ELSE IF ~m.audio_enabled /\ m.stream = "None"
         THEN IF started
              THEN [m EXCEPT !.audio_enabled = TRUE, !.stream = "running"]
              ELSE [m EXCEPT !.audio_enabled = FALSE, !.stream = "None"]
    ELSE IF m.audio_enabled /\ m.stream # "None"
         THEN [m EXCEPT !.audio_enabled = FALSE, !.stream = "None",
                        !.buffered = FALSE]
    ELSE [m EXCEPT !.audio_enabled = ~@]

\* elif key == ord('R')
KeyR(m) ==
    IF ~m.audio_recording /\ AUDIO_AVAILABLE /\ m.audio_enabled
    THEN [m EXCEPT !.wav_file = "open", !.audio_recording = TRUE]
    ELSE IF m.audio_recording
    THEN [m EXCEPT !.audio_recording = FALSE, !.wav_file = "None"]
    ELSE m

\* show_demod_menu: the mode of a choice between 1 and len(DEMOD_MODES),
\* None for any other input
show_demod_menu(choice) ==
    IF 1 <= choice /\ choice <= Len(DemodMenu) THEN DemodMenu[choice] ELSE "None"

\* elif key == ord('d')
KeyD(m, choice) ==
    IF show_demod_menu(choice) # "None"
    THEN [m EXCEPT !.CURRENT_DEMOD = show_demod_menu(choice)]
    ELSE m

\* elif key == ord('l'); bkm is bkm[1], the mode of the bookmark chosen in
\* show_bookmarks, or None
KeyL(m, bkm) ==
    IF bkm # "None" THEN [m EXCEPT !.CURRENT_DEMOD = bkm] ELSE m

(***************************************************************************)
(* gqrx2pss.py, which writes a bookmark file from a GQRX bookmark list.    *)
(* A GQRX mode name is a sequence of characters.                           *)
(***************************************************************************)
StartsWith(s, prefix) ==
    Len(s) >= Len(prefix) /\ SubSeq(s, 1, Len(prefix)) = prefix

\* the mode names of GQRX bookmark files
GqrxModeNames ==
    {<<"N", "a", "r", "r", "o", "w", " ", "F", "M">>,
     <<"A", "M">>,
     <<"A", "M", "-", "S", "y", "n", "c">>,
     <<"W", "F", "M", " ", "(", "m", "o", "n", "o", ")">>,
     <<"W", "F", "M", " ", "(", "s", "t", "e", "r", "e", "o", ")">>,
     <<"C", "W", "-", "L">>,
     <<"C", "W", "-", "U">>,
     <<"L", "S", "B">>,
     <<"U", "S", "B">>,
     <<"R", "a", "w", " ", "I", "/", "Q">>}

\* the string of a sequence of characters
Text(s) ==
    CASE s = <<"L", "S", "B">> -> "LSB"
      [] s = <<"U", "S", "B">> -> "USB"
      [] s = <<"R", "a", "w", " ", "I", "/", "Q">> -> "Raw I/Q"
      [] s = <<"A", "M">> -> "AM"
      [] OTHER -> "?"

\* the mode gqrx_to_json stores for a GQRX mode name
gqrx_to_json(mode) ==
    IF StartsWith(mode, <<"N", "a", "r", "r", "o", "w">>) THEN "FM"
    ELSE IF StartsWith(mode, <<"A", "M">>) THEN "AM"
    ELSE IF StartsWith(mode, <<"W", "F", "M">>) THEN "WFM"
    ELSE IF StartsWith(mode, <<"C", "W">>) THEN "CW"
    ELSE Text(mode)

\* the end of an iteration: the WAV write, then the pipe write, whose
\* outcome is "ok", "eagain" (BlockingIOError, EAGAIN) or "gone"
\* (FileNotFoundError, BrokenPipeError or any other exception)
WavWrite(m) ==
    IF m.audio_recording /\ AUDIO_AVAILABLE /\ m.audio_enabled /\ m.buffered
    THEN [m EXCEPT !.buffered = FALSE]
    ELSE m

PipeWrite(m, outcome) ==
    IF m.USE_PIPE /\ m.buffered
    THEN CASE outcome = "ok" -> [m EXCEPT !.buffered = FALSE]
           [] outcome = "eagain" -> m
           [] OTHER -> [m EXCEPT !.USE_PIPE = FALSE, !.pipe_exists = FALSE]
    ELSE m

InLoop(m) == m.pc \in {"read", "process", "key", "tail"}

(***************************************************************************)
(* The main loop's settings: the block size SAMPLES, the gain and the AGC, *)
(* with the settings file, and the spectrum line of an iteration.  These   *)
(* locals and globals of main do not meet the playback, recording and pipe *)
(* state kept in the variable main, so they are kept apart in ctl.  A gain *)
(* is [auto, db]; sdr.valid_gains_db is np.arange(minimum, maximum + step, *)
(* step), here 0, 10, ... dB.  Arrays are kept by their lengths.           *)
(***************************************************************************)
Auto == [auto |-> TRUE, db |-> 0]

Manual(db) == [auto |-> FALSE, db |-> db]

valid_gains_db == [i \in 1..MaxGains |-> 10 * (i - 1)]

\* load_settings' default_settings: gain 'auto', samples 7, agc_enabled False
default_settings == [gain |-> Auto, samples |-> 7, agc_enabled |-> FALSE]

NoFile == [exists |-> FALSE, gain |-> Auto, samples |-> 7, agc_enabled |-> FALSE]

\* load_settings(): the file's values if there is a file
load_settings(file) ==
    IF file.exists
    THEN [gain |-> file.gain, samples |-> file.samples,
          agc_enabled |-> file.agc_enabled]
    ELSE default_settings

\* save_settings(sdr, bandwidth, freq_step, SAMPLES, AGC_ENABLED)
save_settings(c) ==
    [c EXCEPT !.file = [exists |-> TRUE, gain |-> c.gain,
                        samples |-> c.SAMPLES, agc_enabled |-> c.AGC_ENABLED]]

\* min(range(len(valid_gains)), key=lambda i: abs(valid_gains[i] - gain_value)):
\* the first index at the least distance (0-based)
NearestGainIndex(gain_value) ==
    CHOOSE i \in 0..(MaxGains - 1) :
        /\ \A j \in 0..(MaxGains - 1) :
              Abs(At(valid_gains_db, i) - gain_value)
                 <= Abs(At(valid_gains_db, j) - gain_value)
        /\ \A j \in 0..(i - 1) :
              Abs(At(valid_gains_db, j) - gain_value)
                 > Abs(At(valid_gains_db, i) - gain_value)

\* before main: the module's SAMPLES = 7 and AGC_ENABLED = False,
\* SDRDevice.__init__'s gain 20; gainindex is not yet bound
CtlStart ==
    [pc |-> "start", SAMPLES |-> 7, gainindex |-> -1, gain |-> Manual(20),
     AGC_ENABLED |-> FALSE, file |-> NoFile,
     num_samples |-> 0, freq_data |-> 0, freq_bins |-> 0]

\* main up to the loop: "Load saved settings if available" and "Handle gain
\* setting properly"
ApplySettings(c, settings) ==
    [c EXCEPT !.pc = "loop",
              !.gain = IF settings.gain.auto THEN Auto
                       ELSE Manual(At(valid_gains_db,
                                      NearestGainIndex(settings.gain.db))),
              !.gainindex = IF settings.gain.auto THEN -1
                            ELSE NearestGainIndex(settings.gain.db),
              !.SAMPLES = settings.samples,
              !.AGC_ENABLED = settings.agc_enabled]

\* adjust_gain(sdr, current_power, gainindex); power is "near" when
\* abs(AGC_TARGET_POWER - current_power) < 2, else "weak" or "strong"
adjust_gain(c, power) ==
    IF power = "near" THEN c
    ELSE IF power = "weak"
    THEN IF c.gainindex + 1 <= MaxGains - 1
         THEN [c EXCEPT !.gainindex = c.gainindex + 1,
                        !.gain = Manual(At(valid_gains_db, c.gainindex + 1))]
         ELSE [c EXCEPT !.gainindex = MaxGains - 1]
    ELSE IF c.gainindex - 1 >= 0
         THEN [c EXCEPT !.gainindex = c.gainindex - 1,
                        !.gain = Manual(At(valid_gains_db, c.gainindex - 1))]
         ELSE [c EXCEPT !.gainindex = 0]

\* samples = sdr.read_samples((2**SAMPLES) * 256); num_bins = 1024 and
\* freq_bins = fftshift(fftfreq(num_bins)); freq_data is the spectrum of all
\* the samples after np.convolve(freq_data, np.ones(5)/5, mode='valid')
SpectrumLine(c) ==
    [c EXCEPT !.num_samples = (2 ^ c.SAMPLES) * 256,
              !.freq_bins = 1024,
              !.freq_data = (2 ^ c.SAMPLES) * 256 - 5 + 1]

\* elif key == ord('s') and elif key == ord('S')
KeyDecreaseSamples(c) ==
    [c EXCEPT !.SAMPLES = IF c.SAMPLES - 1 < 5 THEN 5 ELSE c.SAMPLES - 1]

KeyIncreaseSamples(c) ==
    [c EXCEPT !.SAMPLES = IF c.SAMPLES + 1 > 12 THEN 12 ELSE c.SAMPLES + 1]

\* elif key == ord('G')
KeyGainUp(c) ==
    IF c.gainindex + 1 <= MaxGains - 1
    THEN [c EXCEPT !.gainindex = c.gainindex + 1,
                   !.gain = Manual(At(valid_gains_db, c.gainindex + 1))]
    ELSE [c EXCEPT !.gainindex = -1, !.gain = Auto]

\* elif key == ord('g')
KeyGainDown(c) ==
    IF c.gainindex - 1 < 0
    THEN [c EXCEPT !.gainindex = 0, !.gain = Manual(At(valid_gains_db, 0))]
    ELSE [c EXCEPT !.gainindex = c.gainindex - 1,
                   !.gain = Manual(At(valid_gains_db, c.gainindex - 1))]

\* elif key == ord('r'): the settings are loaded again; sdr.set_gain is
\* given the file's gain and gainindex is left as it is
KeyLoadSettings(c) ==
    LET settings == load_settings(c.file)
    IN  [c EXCEPT !.gain = settings.gain,
                  !.SAMPLES = settings.samples,
                  !.AGC_ENABLED = settings.agc_enabled]

\* elif key == ord('A')
KeyToggleAgc(c) ==
    IF c.AGC_ENABLED
    THEN \* now off: "Reset to manual gain mode"
         IF c.gainindex >= 0 /\ c.gainindex < MaxGains
         THEN [c EXCEPT !.AGC_ENABLED = FALSE,
                        !.gain = Manual(At(valid_gains_db, c.gainindex))]
         ELSE [c EXCEPT !.AGC_ENABLED = FALSE, !.gain = Auto,
                        !.gainindex = -1]
    ELSE [c EXCEPT !.AGC_ENABLED = TRUE]

\* the settings files main can find: none, or one that save_settings wrote
\* in an earlier run, or one with a gain between two gains of the device
FileGains ==
    {Auto} \cup {Manual(valid_gains_db[i]) : i \in 1..MaxGains}
           \cup {Manual(15)}

SettingsFiles ==
    {NoFile} \cup [exists : {TRUE}, gain : FileGains, samples : {5, 7, 12},
                   agc_enabled : BOOLEAN]

PowerLevels == {"near", "weak", "strong"}

(***************************************************************************)
(* audio_buffer, audio_callback on the output stream's thread, and the     *)
(* main loop's appends and WAV writes.  A stereo row is kept by its        *)
(* number: the rows of the blocks the main loop appends are numbered 1, 2, *)
(* ... in the order appended; 0 is a row of silence.  A block is a         *)
(* sequence of rows, the queue a sequence of blocks.  Every operation on   *)
(* the deque is one step (the interpreter runs it without giving way);     *)
(* between two of them the other thread may run.  aud.cb is the callback's *)
(* position, aud.mpc the main loop's.                                      *)
(***************************************************************************)
\* audio_buffer = deque(maxlen=24)
maxlen == 24

\* audio_buffer.append(block): a full deque drops its oldest block
DequeAppend(queue, block) ==
    IF Len(queue) >= maxlen THEN Append(Tail(queue), block)
    ELSE Append(queue, block)

\* np.concatenate(list(audio_buffer)) of a queue that is not empty
RECURSIVE Concatenate(_)
Concatenate(queue) ==
    IF queue = <<>> THEN <<>> ELSE Head(queue) \o Concatenate(Tail(queue))

\* np.zeros((frames, 2))
Silence(frames) == [k \in 1..frames |-> 0]

AudStart ==
    [pc |-> "start", frames |-> 0, given |-> <<>>, queue |-> <<>>,
     cb |-> "idle", data |-> <<>>, outdata |-> <<>>, played |-> <<>>,
     recording |-> FALSE, mpc |-> "append", produced |-> 0, wav |-> <<>>]

\* the stream runs: the queue as given, the callback asked for frames rows
AudRun(queue, frames, recording) ==
    [AudStart EXCEPT !.pc = "run", !.frames = frames, !.given = queue,
                     !.queue = queue, !.recording = recording]

\* if len(audio_buffer) > 0: ... else: outdata[:] = np.zeros((frames, 2))
CbTest(a) ==
    IF Len(a.queue) > 0 THEN [a EXCEPT !.cb = "concatenate"]
    ELSE [a EXCEPT !.outdata = Silence(a.frames), !.cb = "idle"]

\* data = np.concatenate(list(audio_buffer)), which raises ValueError on an
\* empty list; if len(data) >= frames: outdata[:] = data[:frames] else
\* silence
CbConcatenate(a) ==
    IF a.queue = <<>> THEN [a EXCEPT !.cb = "raised"]
    ELSE LET data == Concatenate(a.queue)
         IN  IF Len(data) >= a.frames
             THEN [a EXCEPT !.data = data,
                            !.outdata = Slice(data, 0, a.frames),
                            !.played = @ \o Slice(data, 0, a.frames),
                            !.cb = "clear"]
             ELSE [a EXCEPT !.outdata = Silence(a.frames), !.cb = "idle"]

\* audio_buffer.clear() without the remainder put back
CbClearDropsRest(a) ==
    [a EXCEPT !.queue = <<>>, !.data = <<>>, !.cb = "idle"]

\* audio_buffer.clear(); if len(data) > frames: ...
CbClear(a) ==
    IF Len(a.data) > a.frames
    THEN [a EXCEPT !.queue = <<>>, !.cb = "append"]
    ELSE [a EXCEPT !.queue = <<>>, !.data = <<>>, !.cb = "idle"]

\* audio_buffer.append(data[frames:])
CbAppend(a) ==
    [a EXCEPT !.queue = DequeAppend(a.queue, Slice(a.data, a.frames, Len(a.data))),
              !.data = <<>>, !.cb = "idle"]

\* audio_callback(outdata, frames, time, status) from its first statement
\* to its last with no other thread in between
audio_callback(a) ==
    LET tested == CbTest(a)
        copied == CbConcatenate(tested)
        cleared == CbClear(copied)
    IN  IF tested.cb = "idle" THEN tested
        ELSE IF copied.cb # "clear" THEN copied
        ELSE IF cleared.cb = "idle" THEN cleared
        ELSE CbAppend(cleared)

\* the k-th block the main loop appends: MaxRows rows
Block(k) == [j \in 1..MaxRows |-> (k - 1) * MaxRows + j]

\* audio = demodulate_signal(...); audio_buffer.append(audio)
MainAppend(a) ==
    [a EXCEPT !.queue = DequeAppend(a.queue, Block(a.produced + 1)),
              !.produced = a.produced + 1, !.mpc = "tail"]

\* if audio_recording and AUDIO_AVAILABLE and audio_enabled:
\*     if len(audio_buffer) > 0:
RecTest(a) ==
    IF a.recording /\ Len(a.queue) > 0 THEN [a EXCEPT !.mpc = "concatenate"]
    ELSE [a EXCEPT !.mpc = "append"]

\* audio_data = np.concatenate(list(audio_buffer)), which raises ValueError
\* on an empty list (no except clause of main catches it);
\* write_audio_samples(wav_file, audio_data)
RecConcatenate(a) ==
    IF a.queue = <<>> THEN [a EXCEPT !.mpc = "crashed"]
    ELSE [a EXCEPT !.wav = @ \o Concatenate(a.queue), !.mpc = "clear"]

\* audio_buffer.clear()
RecClear(a) == [a EXCEPT !.queue = <<>>, !.mpc = "append"]

\* the queues audio_callback is called on by itself: up to MaxQueue blocks
\* of 1..MaxRows rows, the rows numbered in order
BlockLengths ==
    UNION {[1..n -> 1..MaxRows] : n \in 0..MaxQueue}

RECURSIVE SumTo(_, _)
SumTo(lens, k) == IF k = 0 THEN 0 ELSE lens[k] + SumTo(lens, k - 1)

QueueOf(lens) ==
    [b \in 1..Len(lens) |-> [j \in 1..lens[b] |-> SumTo(lens, b - 1) + j]]

(***************************************************************************)
(* Actions of the AX.25 specification.  A behaviour is one call: the       *)
(* decoders keep no state between calls.                                   *)
(***************************************************************************)
AxIdle == [start |-> -1, loop |-> NoLoop, frame_bytes |-> <<>>,
           parsed |-> FALSE, result |-> Pending]

AxInit ==
    /\ ax_call = "idle"
    /\ bit_stream = <<>>
    /\ tx = NotBuilt
    /\ ax25 = AxIdle

MorseInit ==
    /\ morse_call = "idle"
    /\ envelope = <<>>
    /\ sample_rate = 0
    /\ km_guess = <<0, 0>>
    /\ fp = Exact
    /\ sos = NoSos
    /\ morse = MorseEmpty(<<>>, <<>>)

ClsInit ==
    /\ cls_call = "idle"
    /\ features = NoFeatures
    /\ label = "none"

DspInit ==
    /\ dsp_call = "idle"
    /\ dsp_in = NoDspIn
    /\ dsp_out = NoDspOut

MainInit ==
    /\ main = [MainStart(FALSE) EXCEPT !.pc = "start", !.sdr_open = FALSE]
    /\ key = "none"
    /\ bookmark_modes = {}

CtlInit == ctl = CtlStart

AudInit == aud = AudStart

Init ==
    AxInit /\ MorseInit /\ ClsInit /\ DspInit /\ MainInit /\ CtlInit /\ AudInit

\* no decoder or signal-processing function has been called
FunctionsIdle ==
    /\ ax_call = "idle"
    /\ morse_call = "idle"
    /\ cls_call = "idle"
    /\ dsp_call = "idle"

\* nor has the settings or the audio component left its first state
CallsIdle == FunctionsIdle /\ CtlInit /\ AudInit

Idle == CallsIdle /\ MainInit

\* decode_ax25_frame on an arbitrary bit stream
DecodeBits ==
    /\ Idle
    /\ \E bs \in BitSeqs(MaxBits) :
        /\ ax_call' = "decode_ax25_frame"
        /\ bit_stream' = bs
        /\ tx' = NotBuilt
        /\ ax25' = decode_ax25_frame(bs)
        /\ UNCHANGED <<morse_vars, cls_vars, dsp_vars, main_vars, ctl_vars, audio_vars>>

\* decode_ax25_frame on pre + flag + stuffed frame + tail
DecodeFramed ==
    /\ Idle
    /\ \E F \in TestFrames, pre \in BitSeqs(MaxPad), tail \in Tails :
        LET bs == pre \o flag \o Stuff(F) \o tail
        IN  /\ ax_call' = "decode_ax25_frame"
            /\ bit_stream' = bs
            /\ tx' = [built |-> TRUE, frame |-> F, pre |-> pre, tail |-> tail]
            /\ ax25' = decode_ax25_frame(bs)
            /\ UNCHANGED <<morse_vars, cls_vars, dsp_vars, main_vars, ctl_vars, audio_vars>>

\* decode_aprs_payload called on frame bytes directly
DecodePayload ==
    /\ Idle
    /\ \E F \in TestFrames :
        /\ ax_call' = "decode_aprs_payload"
        /\ bit_stream' = <<>>
        /\ tx' = NotBuilt
        /\ ax25' = [AxIdle EXCEPT !.frame_bytes = F, !.parsed = TRUE,
                                  !.result = decode_aprs_payload(F)]
        /\ UNCHANGED <<morse_vars, cls_vars, dsp_vars, main_vars, ctl_vars, audio_vars>>

AxNext == DecodeBits \/ DecodeFramed \/ DecodePayload

SpecAX25 == Init /\ [][AxNext]_vars

\* decode_morse on a window keyed with SOS
DecodeSos ==
    /\ Idle
    /\ \E fs \in SosRates, lead \in 0..MaxLead, trail \in 0..MaxLead,
          lo \in {0, 1} :
        \E env \in {SosEnvelope(UnitSamples(fs), lead, trail, 20, lo)} :
            \E guess \in Guesses(decode_morse(env, <<0, 0>>, fs, Exact).durations),
               round \in Roundings :
                /\ morse_call' = "decode_morse"
                /\ envelope' = env
                /\ sample_rate' = fs
                /\ km_guess' = guess
                /\ fp' = round
                /\ sos' = [built |-> TRUE, unit |-> UnitSamples(fs),
                           lead |-> lead, trail |-> trail]
                /\ morse' = decode_morse(env, guess, fs, round)
                /\ UNCHANGED <<ax_vars, cls_vars, dsp_vars, main_vars, ctl_vars, audio_vars>>

\* decode_morse on an arbitrary window of at least one sample
DecodeWindow ==
    /\ Idle
    /\ \E keying \in BitSeqs(MaxEnv) \ {<<>>}, lv \in LevelSchemes,
          fs \in WindowRates :
        \E env \in {[k \in 1..Len(keying) |->
                        IF keying[k] = 1 THEN lv[1] ELSE lv[2]]} :
            \E guess \in Guesses(decode_morse(env, <<0, 0>>, fs, Exact).durations),
               round \in Roundings :
                /\ morse_call' = "decode_morse"
                /\ envelope' = env
                /\ sample_rate' = fs
                /\ km_guess' = guess
                /\ fp' = round
                /\ sos' = NoSos
                /\ morse' = decode_morse(env, guess, fs, round)
                /\ UNCHANGED <<ax_vars, cls_vars, dsp_vars, main_vars, ctl_vars, audio_vars>>

MorseNext == DecodeSos \/ DecodeWindow

SpecMorse == Init /\ [][MorseNext]_vars

\* classify_signal once the three characteristics are computed
Classify ==
    /\ Idle
    /\ \E bw \in BwValues, idx \in IndexValues, flat \in FlatnessValues :
        /\ cls_call' = "classify_signal"
        /\ features' = [signal_bw |-> bw, modulation_index |-> idx,
                        spectral_flatness |-> flat]
        /\ label' = classify_signal(bw, idx, flat)
        /\ UNCHANGED <<ax_vars, morse_vars, dsp_vars, main_vars, ctl_vars, audio_vars>>

ClsNext == Classify

SpecClassify == Init /\ [][ClsNext]_vars

\* demodulate_signal(samples, sample_rate, mode)
DemodulateSignal ==
    /\ Idle
    /\ \E samples \in SampleBlocks, mode \in ModeArguments :
        \E cos_rounding \in CosRoundings(samples) :
            \E iq \in {iq_correction(samples, cos_rounding)} :
                \E filtered \in ToNormalize(mode, iq.samples) :
                    /\ dsp_call' = "demodulate_signal"
                    /\ dsp_in' = [NoDspIn EXCEPT !.samples = samples,
                                                 !.mode = mode,
                                                 !.cos_rounding = cos_rounding,
                                                 !.filtered = filtered]
                    /\ dsp_out' = [corrected |-> iq.samples,
                                   zero_divisors |-> iq.zero_divisors,
                                   result |-> demodulate_signal(samples, mode,
                                                  iq.samples, filtered)]
                    /\ UNCHANGED <<ax_vars, morse_vars, cls_vars, main_vars, ctl_vars, audio_vars>>

\* demodulate_nfm, demodulate_wfm, demodulate_am or demodulate_ssb called on
\* a block of samples
Demodulate ==
    /\ Idle
    /\ \E samples \in SampleBlocks, mode \in NormalizingModes :
        \E filtered \in ToNormalize(mode, CxBlock(samples)) :
            /\ dsp_call' = "demodulator"
            /\ dsp_in' = [NoDspIn EXCEPT !.samples = samples,
                                         !.mode = mode,
                                         !.filtered = filtered]
            /\ dsp_out' = [NoDspOut EXCEPT !.result = Demodulator(mode, filtered)]
            /\ UNCHANGED <<ax_vars, morse_vars, cls_vars, main_vars, ctl_vars, audio_vars>>

\* compute_fft(samples)
ComputeFft ==
    /\ Idle
    /\ \E samples \in SampleBlocks :
        \E magnitude_db \in Magnitudes(samples) :
            /\ dsp_call' = "compute_fft"
            /\ dsp_in' = [NoDspIn EXCEPT !.samples = samples,
                                         !.magnitude_db = magnitude_db]
            /\ dsp_out' = [NoDspOut EXCEPT
                              !.result = [kind |-> "ndarray",
                                          shape |-> <<Len(magnitude_db), 1>>,
                                          rows |-> compute_fft(samples, magnitude_db)]]
            /\ UNCHANGED <<ax_vars, morse_vars, cls_vars, main_vars, ctl_vars, audio_vars>>

DspNext == DemodulateSignal \/ Demodulate \/ ComputeFft

SpecDSP == Init /\ [][DspNext]_vars

(***************************************************************************)
(* Actions of the main loop.                                               *)
(***************************************************************************)
\* main up to the loop: init_audio_device succeeds or fails, the SDR device
\* is opened
StartMain ==
    /\ Idle
    /\ \E audio_available \in BOOLEAN : main' = MainStart(audio_available)
    /\ UNCHANGED <<key, bookmark_modes, ax_vars, morse_vars, cls_vars, dsp_vars, ctl_vars, audio_vars>>

\* sdr.read_samples returns a block that is neither empty nor all zero
ReadBlock ==
    /\ CallsIdle
    /\ main.pc = "read"
    /\ main' = [main EXCEPT !.pc = "process", !.attempt = 1 - @]
    /\ UNCHANGED <<key, bookmark_modes, ax_vars, morse_vars, cls_vars, dsp_vars, ctl_vars, audio_vars>>

\* sdr.read_samples raises, or returns an empty or an all-zero block: a
\* message is shown and the loop continues with the next read
ReadFails ==
    /\ CallsIdle
    /\ main.pc = "read"
    /\ main' = [main EXCEPT !.attempt = 1 - @]
    /\ UNCHANGED <<key, bookmark_modes, ax_vars, morse_vars, cls_vars, dsp_vars, ctl_vars, audio_vars>>

\* demodulation and the audio_buffer appends, the spectrum and the drawing
ProcessBlock ==
    /\ CallsIdle
    /\ main.pc = "process"
    /\ main' = [Appended(main, Demodulations(main)) EXCEPT
                    !.demodulated = Demodulations(main), !.pc = "key"]
    /\ UNCHANGED <<key, bookmark_modes, ax_vars, morse_vars, cls_vars, dsp_vars, ctl_vars, audio_vars>>

\* demodulate_signal or the spectrum computation raises: no except clause
\* of main catches the exception, the finally clause runs
ProcessRaises ==
    /\ CallsIdle
    /\ main.pc = "process"
    /\ \E step \in {"demodulate", "fft"} :
        /\ step = "demodulate" => Demodulations(main) > 0
        /\ main' = Finally([(IF step = "fft"
                             THEN Appended(main, Demodulations(main))
                             ELSE main) EXCEPT !.pc = "crashed", !.error = step])
    /\ UNCHANGED <<key, bookmark_modes, ax_vars, morse_vars, cls_vars, dsp_vars, ctl_vars, audio_vars>>

\* a drawing call raises curses.error: except curses.error: continue
DrawRaises ==
    /\ CallsIdle
    /\ main.pc = "process"
    /\ main' = [Appended(main, Demodulations(main)) EXCEPT
                    !.demodulated = Demodulations(main), !.pc = "read"]
    /\ UNCHANGED <<key, bookmark_modes, ax_vars, morse_vars, cls_vars, dsp_vars, ctl_vars, audio_vars>>

\* getch returns -1 or a key without a modelled handler
NoKey ==
    /\ CallsIdle
    /\ main.pc = "key"
    /\ key \in {"none", "other"}
    /\ main' = [main EXCEPT !.pc = "tail"]
    /\ key' = "none"
    /\ UNCHANGED <<bookmark_modes, ax_vars, morse_vars, cls_vars, dsp_vars, ctl_vars, audio_vars>>

\* if key == ord('q'): break, then main's finally clause
KeyQuit ==
    /\ CallsIdle
    /\ main.pc = "key"
    /\ key = "q"
    /\ main' = Finally([main EXCEPT !.pc = "exited"])
    /\ key' = "none"
    /\ UNCHANGED <<bookmark_modes, ax_vars, morse_vars, cls_vars, dsp_vars, ctl_vars, audio_vars>>

KeyPipe ==
    /\ CallsIdle
    /\ main.pc = "key"
    /\ key = "I"
    /\ main' = [KeyI(main) EXCEPT !.pc = "tail"]
    /\ key' = "none"
    /\ UNCHANGED <<bookmark_modes, ax_vars, morse_vars, cls_vars, dsp_vars, ctl_vars, audio_vars>>

KeyAudio ==
    /\ CallsIdle
    /\ main.pc = "key"
    /\ key = "a"
    /\ \E started \in BOOLEAN :
        main' = [KeyA(main, started) EXCEPT !.pc = "tail"]
    /\ key' = "none"
    /\ UNCHANGED <<bookmark_modes, ax_vars, morse_vars, cls_vars, dsp_vars, ctl_vars, audio_vars>>

KeyRecord ==
    /\ CallsIdle
    /\ main.pc = "key"
    /\ key = "R"
    /\ main' = [KeyR(main) EXCEPT !.pc = "tail"]
    /\ key' = "none"
    /\ UNCHANGED <<bookmark_modes, ax_vars, morse_vars, cls_vars, dsp_vars, ctl_vars, audio_vars>>

\* the user types a number, or something else, into the demodulation menu
KeyDemod ==
    /\ CallsIdle
    /\ main.pc = "key"
    /\ key = "d"
    /\ \E choice \in 0..(Len(DemodMenu) + 1) :
        main' = [KeyD(main, choice) EXCEPT !.pc = "tail"]
    /\ key' = "none"
    /\ UNCHANGED <<bookmark_modes, ax_vars, morse_vars, cls_vars, dsp_vars, ctl_vars, audio_vars>>

\* the user picks a bookmark of the bookmark file, or none
KeyLoadBookmark ==
    /\ CallsIdle
    /\ main.pc = "key"
    /\ key = "l"
    /\ \E bkm \in bookmark_modes \cup {"None"} :
        main' = [KeyL(main, bkm) EXCEPT !.pc = "tail"]
    /\ key' = "none"
    /\ UNCHANGED <<bookmark_modes, ax_vars, morse_vars, cls_vars, dsp_vars, ctl_vars, audio_vars>>

\* add_bookmark: save_bookmark stores [freq, CURRENT_DEMOD, bandwidth]
KeySaveBookmark ==
    /\ CallsIdle
    /\ main.pc = "key"
    /\ key = "k"
    /\ Cardinality(bookmark_modes \cup {main.CURRENT_DEMOD}) <= MaxBookmarks
    /\ main' = [main EXCEPT !.pc = "tail"]
    /\ bookmark_modes' = bookmark_modes \cup {main.CURRENT_DEMOD}
    /\ key' = "none"
    /\ UNCHANGED <<ax_vars, morse_vars, cls_vars, dsp_vars, ctl_vars, audio_vars>>

\* the WAV and pipe writes that end an iteration
EndOfIteration ==
    /\ CallsIdle
    /\ main.pc = "tail"
    /\ \E outcome \in {"ok", "eagain", "gone"} :
        main' = [PipeWrite(WavWrite(main), outcome) EXCEPT !.pc = "read"]
    /\ UNCHANGED <<key, bookmark_modes, ax_vars, morse_vars, cls_vars, dsp_vars, ctl_vars, audio_vars>>

\* the user presses a key; the loop has read the key pressed before
PressKey ==
    /\ CallsIdle
    /\ InLoop(main)
    /\ key = "none"
    /\ \E k \in Keys : key' = k
    /\ UNCHANGED <<main, bookmark_modes, ax_vars, morse_vars, cls_vars, dsp_vars, ctl_vars, audio_vars>>

\* audio_callback on the stream's thread: it empties audio_buffer and puts
\* back what it did not play, if anything
AudioCallback ==
    /\ CallsIdle
    /\ InLoop(main)
    /\ main.stream = "running"
    /\ main.buffered
    /\ \E rest \in BOOLEAN : main' = [main EXCEPT !.buffered = rest]
    /\ UNCHANGED <<key, bookmark_modes, ax_vars, morse_vars, cls_vars, dsp_vars, ctl_vars, audio_vars>>

\* the bookmark file is one written by gqrx2pss.py from a GQRX bookmark
ImportBookmarks ==
    /\ CallsIdle
    /\ InLoop(main)
    /\ bookmark_modes = {}
    /\ \E name \in GqrxModeNames : bookmark_modes' = {gqrx_to_json(name)}
    /\ UNCHANGED <<main, key, ax_vars, morse_vars, cls_vars, dsp_vars, ctl_vars, audio_vars>>

\* the steps of the main loop's thread
MainLoop ==
    \/ StartMain
    \/ ReadBlock \/ ReadFails
    \/ ProcessBlock \/ ProcessRaises \/ DrawRaises
    \/ NoKey \/ KeyQuit \/ KeyPipe \/ KeyAudio \/ KeyRecord \/ KeyDemod
    \/ KeyLoadBookmark \/ KeySaveBookmark
    \/ EndOfIteration

MainNext == MainLoop \/ PressKey \/ AudioCallback \/ ImportBookmarks

SpecMain == Init /\ [][MainNext]_vars

\* the main loop's thread keeps running
SpecMainLive == SpecMain /\ WF_vars(MainLoop)

(***************************************************************************)
(* Actions of the settings specification.                                  *)
(***************************************************************************)
CtlRunning == FunctionsIdle /\ MainInit /\ AudInit /\ ctl.pc = "loop"

\* main up to the loop, with the settings file it finds
StartControls ==
    /\ Idle
    /\ \E file \in SettingsFiles :
        ctl' = ApplySettings([CtlStart EXCEPT !.file = file], load_settings(file))
    /\ UNCHANGED <<ax_vars, morse_vars, cls_vars, dsp_vars, main_vars, audio_vars>>

\* an iteration up to the drawing: the block is read, adjust_gain is called
\* if the AGC is on and its interval has passed, the spectrum line and its
\* frequency axis are computed and handed to the display
ControlIteration ==
    /\ CtlRunning
    /\ \E agc_due \in BOOLEAN, power \in PowerLevels :
        ctl' = SpectrumLine(IF ctl.AGC_ENABLED /\ agc_due
                            THEN adjust_gain(ctl, power) ELSE ctl)
    /\ UNCHANGED <<ax_vars, morse_vars, cls_vars, dsp_vars, main_vars, audio_vars>>

PressDecreaseSamples ==
    /\ CtlRunning
    /\ ctl' = KeyDecreaseSamples(ctl)
    /\ UNCHANGED <<ax_vars, morse_vars, cls_vars, dsp_vars, main_vars, audio_vars>>

PressIncreaseSamples ==
    /\ CtlRunning
    /\ ctl' = KeyIncreaseSamples(ctl)
    /\ UNCHANGED <<ax_vars, morse_vars, cls_vars, dsp_vars, main_vars, audio_vars>>

PressGainUp ==
    /\ CtlRunning
    /\ ctl' = KeyGainUp(ctl)
    /\ UNCHANGED <<ax_vars, morse_vars, cls_vars, dsp_vars, main_vars, audio_vars>>

PressGainDown ==
    /\ CtlRunning
    /\ ctl' = KeyGainDown(ctl)
    /\ UNCHANGED <<ax_vars, morse_vars, cls_vars, dsp_vars, main_vars, audio_vars>>

PressToggleAgc ==
    /\ CtlRunning
    /\ ctl' = KeyToggleAgc(ctl)
    /\ UNCHANGED <<ax_vars, morse_vars, cls_vars, dsp_vars, main_vars, audio_vars>>

PressLoadSettings ==
    /\ CtlRunning
    /\ ctl' = KeyLoadSettings(ctl)
    /\ UNCHANGED <<ax_vars, morse_vars, cls_vars, dsp_vars, main_vars, audio_vars>>

\* elif key == ord('w')
PressSaveSettings ==
    /\ CtlRunning
    /\ ctl' = save_settings(ctl)
    /\ UNCHANGED <<ax_vars, morse_vars, cls_vars, dsp_vars, main_vars, audio_vars>>

CtlNext ==
    \/ StartControls \/ ControlIteration
    \/ PressDecreaseSamples \/ PressIncreaseSamples
    \/ PressGainUp \/ PressGainDown \/ PressToggleAgc
    \/ PressLoadSettings \/ PressSaveSettings

SpecControls == Init /\ [][CtlNext]_vars

(***************************************************************************)
(* Actions of the audio specification.                                     *)
(***************************************************************************)
AudOthersIdle == FunctionsIdle /\ MainInit /\ CtlInit

AudRunning == AudOthersIdle /\ aud.pc = "run"

\* the stream's thread calls audio_callback while the stream runs; main's
\* finally clause stops the stream
StreamRuns == AudRunning /\ aud.mpc # "crashed" /\ aud.cb # "raised"

\* audio_callback called on a queue, no other thread running
CallbackAlone ==
    /\ Idle
    /\ \E lens \in BlockLengths, frames \in 1..MaxFrames :
        aud' = [audio_callback(AudRun(QueueOf(lens), frames, FALSE))
                   EXCEPT !.pc = "called"]
    /\ UNCHANGED <<ax_vars, morse_vars, cls_vars, dsp_vars, main_vars, ctl_vars>>

\* playback is switched on: the stream starts with an empty queue
StartAudio ==
    /\ Idle
    /\ \E frames \in 1..MaxFrames, recording \in BOOLEAN :
        aud' = AudRun(<<>>, frames, recording)
    /\ UNCHANGED <<ax_vars, morse_vars, cls_vars, dsp_vars, main_vars, ctl_vars>>

CallbackTests ==
    /\ StreamRuns
    /\ aud.cb = "idle"
    /\ aud' = CbTest(aud)
    /\ UNCHANGED <<ax_vars, morse_vars, cls_vars, dsp_vars, main_vars, ctl_vars>>

CallbackConcatenates ==
    /\ StreamRuns
    /\ aud.cb = "concatenate"
    /\ aud' = CbConcatenate(aud)
    /\ UNCHANGED <<ax_vars, morse_vars, cls_vars, dsp_vars, main_vars, ctl_vars>>

CallbackClears ==
    /\ StreamRuns
    /\ aud.cb = "clear"
    /\ aud' = CbClear(aud)
    /\ UNCHANGED <<ax_vars, morse_vars, cls_vars, dsp_vars, main_vars, ctl_vars>>

CallbackAppends ==
    /\ StreamRuns
    /\ aud.cb = "append"
    /\ aud' = CbAppend(aud)
    /\ UNCHANGED <<ax_vars, morse_vars, cls_vars, dsp_vars, main_vars, ctl_vars>>

LoopAppends ==
    /\ AudRunning
    /\ aud.mpc = "append"
    /\ aud.produced < MaxAppends
    /\ aud' = MainAppend(aud)
    /\ UNCHANGED <<ax_vars, morse_vars, cls_vars, dsp_vars, main_vars, ctl_vars>>

LoopTests ==
    /\ AudRunning
    /\ aud.mpc = "tail"
    /\ aud' = RecTest(aud)
    /\ UNCHANGED <<ax_vars, morse_vars, cls_vars, dsp_vars, main_vars, ctl_vars>>

LoopConcatenates ==
    /\ AudRunning
    /\ aud.mpc = "concatenate"
    /\ aud' = RecConcatenate(aud)
    /\ UNCHANGED <<ax_vars, morse_vars, cls_vars, dsp_vars, main_vars, ctl_vars>>

LoopClears ==
    /\ AudRunning
    /\ aud.mpc = "clear"
    /\ aud' = RecClear(aud)
    /\ UNCHANGED <<ax_vars, morse_vars, cls_vars, dsp_vars, main_vars, ctl_vars>>

AudNext ==
    \/ CallbackAlone \/ StartAudio
    \/ CallbackTests \/ CallbackConcatenates \/ CallbackClears
    \/ CallbackAppends
    \/ LoopAppends \/ LoopTests \/ LoopConcatenates \/ LoopClears

SpecAudio == Init /\ [][AudNext]_vars

Next ==
    AxNext \/ MorseNext \/ ClsNext \/ DspNext \/ MainNext \/ CtlNext \/ AudNext

Spec == Init /\ [][Next]_vars

(***************************************************************************)
(* Claims about the AX.25 decoder.                                         *)
(***************************************************************************)
\* the flag pattern lies at 0-based position k of the raw stream
FlagAt(bs, k) == k >= 0 /\ k + 8 <= Len(bs) /\ Slice(bs, k, k + 8) = flag

FlagPositions(bs) == {k \in 0..(Len(bs) - 8) : FlagAt(bs, k)}

FirstFlag(bs) == CHOOSE k \in FlagPositions(bs) : \A m \in FlagPositions(bs) : k <= m

\* C1: AX.25 round trip.  When decode_ax25_frame is given flag + stuffed
\* bits of frame F (LSB first per byte) + flag, the bytes it hands to payload
\* parsing are exactly F.
C1_RoundTrip ==
    (ax_call = "decode_ax25_frame" /\ tx.built /\ tx.pre = <<>> /\ tx.tail = flag)
        => (ax25.parsed /\ ax25.frame_bytes = tx.frame)

\* C2: a stream with a start flag and no closing flag after it makes
\* decode_ax25_frame return None, however many bits follow the start flag.
C2_NoClosingFlagIsNone ==
    (/\ ax_call = "decode_ax25_frame"
     /\ FlagPositions(bit_stream) # {}
     /\ \A k \in FlagPositions(bit_stream) : k = FirstFlag(bit_stream))
        => ax25.result = None

\* C3: on every bit sequence decode_ax25_frame terminates (the deframing
\* loop ends within as many passes as the stream has bits) and returns a
\* packet string or None.
C3_TerminatesWithPacketOrNone ==
    ax_call = "decode_ax25_frame"
        => (ax25.loop.terminated /\ ax25.result.kind \in {"None", "str"})

\* C3 witness: a stream truncated inside a frame (start flag found, a stuffed
\* bit skipped, no end flag seen) was decoded and None was returned.
C3_Witness ==
    /\ ax_call = "decode_ax25_frame"
    /\ ax25.start # -1
    /\ ~ax25.loop.ended
    /\ ax25.loop.iters > 0
    /\ ax25.loop.i > ax25.start + ax25.loop.iters
    /\ ax25.loop.terminated
    /\ ax25.result = None

\* C4: when byte-packing yields fewer than 14 bytes, the decoder returns
\* None, never a packet string.
C4_ShortFrameIsNone ==
    (ax_call # "idle" /\ ax25.parsed /\ Len(ax25.frame_bytes) < 14)
        => ax25.result = None

\* C4 witness: a deframed stream packed into 13 bytes and None was returned.
C4_Witness ==
    /\ ax_call = "decode_ax25_frame"
    /\ ax25.parsed
    /\ Len(ax25.frame_bytes) = 13
    /\ ax25.result = None

\* the claim's reading of a callsign field: the characters (byte >> 1) & 0x7F
\* of fb[lo : lo + 6] with the leading and trailing characters in `blank`
\* removed
RECURSIVE TrimLeft(_, _)
TrimLeft(s, blank) ==
    IF s # <<>> /\ s[1] \in blank THEN TrimLeft(SubSeq(s, 2, Len(s)), blank) ELSE s

RECURSIVE TrimRight(_, _)
TrimRight(s, blank) ==
    IF s # <<>> /\ s[Len(s)] \in blank
    THEN TrimRight(SubSeq(s, 1, Len(s) - 1), blank) ELSE s

ClaimField(fb, lo, blank) ==
    TrimRight(TrimLeft([k \in 1..6 |-> (fb[lo + k] \div 2) % 128], blank), blank)

\* SOURCE>DEST:INFO from bytes 0..5, 7..12 and 15.. only
ClaimPacket(fb, blank) ==
    ClaimField(fb, 7, blank) \o <<62>> \o ClaimField(fb, 0, blank) \o <<58>>
        \o [k \in 1..(IF Len(fb) > 15 THEN Len(fb) - 15 ELSE 0) |-> fb[15 + k]]

OnlySpace == {32}
PythonWhitespace == {9, 10, 11, 12, 13, 28, 29, 30, 31, 32}

\* C5 as stated: for a frame of at least 14 bytes the result is
\* SOURCE>DEST:INFO, the callsigns trimmed of spaces; bytes 6, 13 and 14 do
\* not influence it.
C5_PacketSpaceTrimmed ==
    (ax_call # "idle" /\ ax25.parsed /\ Len(ax25.frame_bytes) >= 14)
        => ax25.result = Str(ClaimPacket(ax25.frame_bytes, OnlySpace))

\* C5 amended: for a frame of at least 14 bytes the result is
\* SOURCE>DEST:INFO, the callsigns trimmed of leading and trailing whitespace
\* as str.strip() does (codes 9-13, 28-31 and 32); bytes 6, 13 and 14 do not
\* influence it.
C5_PacketWhitespaceTrimmed ==
    (ax_call # "idle" /\ ax25.parsed /\ Len(ax25.frame_bytes) >= 14)
        => ax25.result = Str(ClaimPacket(ax25.frame_bytes, PythonWhitespace))

\* C5 witness: a frame of more than 15 bytes was parsed whose destination
\* field had blanks trimmed and whose information field is not empty.
C5_Witness ==
    /\ ax_call = "decode_aprs_payload"
    /\ Len(ax25.frame_bytes) > 15
    /\ ax25.result.kind = "str"
    /\ Len(ax25.result.text) < Len(ax25.frame_bytes) - 1
    /\ ax25.result.text[Len(ax25.result.text)] = ax25.frame_bytes[Len(ax25.frame_bytes)]

(***************************************************************************)
(* Claims about the Morse decoder.                                         *)
(***************************************************************************)
SOS == <<83, 79, 83>>

\* C6, as stated: for a window keyed with SOS (dot 60 ms, dash 3 dots,
\* element gaps 1 dot, letter gaps 3 dots) decode_morse returns "SOS".
C6_SosDecodes ==
    (morse_call = "decode_morse" /\ sos.built)
        => (morse.kind = "ok" /\ morse.text = SOS)

\* C6, amended: for a window keyed with SOS that begins and ends with at
\* least one unkeyed sample, decode_morse returns "SOS", whichever
\* observations k-means draws.
C6_SosWithinWindowDecodes ==
    (morse_call = "decode_morse" /\ sos.built /\ sos.lead >= 1 /\ sos.trail >= 1)
        => (morse.kind = "ok" /\ morse.text = SOS)

C6_Witness ==
    /\ morse_call = "decode_morse" /\ sos.built /\ sos.lead >= 1 /\ sos.trail >= 1
    /\ Len(morse.durations) = 9
    /\ morse.dot = <<sos.unit, 1>> /\ morse.dash = <<3 * sos.unit, 1>>
    /\ morse.symbols = <<<<46, 46, 46, 45, 45, 45, 46, 46, 46>>>>
    /\ morse.text = SOS

\* the positions of the 0 -> 1 and of the 1 -> 0 steps of the keyed signal
RisingEdges(sig) == {i \in 1..(Len(sig) - 1) : sig[i] = 0 /\ sig[i + 1] = 1}
FallingEdges(sig) == {i \in 1..(Len(sig) - 1) : sig[i] = 1 /\ sig[i + 1] = 0}

CompletePulse(sig) ==
    \E r \in RisingEdges(sig), f \in FallingEdges(sig) : r < f

\* C7: a window whose keyed signal has no rising edge, or no falling edge,
\* or no rise followed by a fall, gives the empty text and zero timing, and
\* decode_morse does not raise.
C7_NoPulseIsEmpty ==
    (morse_call = "decode_morse" /\ ~CompletePulse(Signals(envelope)))
        => /\ morse.kind = "ok"
           /\ morse.text = <<>>
           /\ morse.dot = Zero /\ morse.dash = Zero /\ morse.gap = Zero

C7_Witness ==
    /\ morse_call = "decode_morse"
    /\ RisingEdges(Signals(envelope)) # {}
    /\ FallingEdges(Signals(envelope)) # {}
    /\ ~CompletePulse(Signals(envelope))
    /\ morse.kind = "ok" /\ morse.text = <<>> /\ morse.dot = Zero

(***************************************************************************)
(* Claims about the classifier.                                            *)
(***************************************************************************)
\* C8: the label is FM_BROADCAST exactly when the bandwidth is above
\* 150 kHz and the modulation index is above 0.8, both strictly.
C8_FmBroadcastBoundary ==
    cls_call = "classify_signal"
        => (label = "FM_BROADCAST"
               <=> (features.signal_bw > 150000
                      /\ features.modulation_index > 800))

C8_Witness ==
    /\ cls_call = "classify_signal"
    /\ features.signal_bw = 150001 /\ features.modulation_index = 810
    /\ label = "FM_BROADCAST"

\* C9: a bandwidth within 8-10 kHz with a modulation index below 0.2 and a
\* spectral flatness below 0.3 is labelled AM_BROADCAST.
C9_AmBroadcast ==
    (/\ cls_call = "classify_signal"
     /\ 8000 <= features.signal_bw /\ features.signal_bw <= 10000
     /\ features.modulation_index < 200
     /\ features.spectral_flatness < 300)
        => label = "AM_BROADCAST"

\* C10: when the label is none of FM_BROADCAST, NARROW_FM, AM_BROADCAST and
\* SSB, it is DIGITAL if the spectral flatness is above 0.7 and UNKNOWN
\* otherwise, inside the bandwidth brackets as well as outside.
C10_DigitalElseUnknown ==
    (/\ cls_call = "classify_signal"
     /\ label \notin {"FM_BROADCAST", "NARROW_FM", "AM_BROADCAST", "SSB"})
        => label = (IF features.spectral_flatness > 700 THEN "DIGITAL"
                    ELSE "UNKNOWN")

(***************************************************************************)
(* Claims about the demodulators and the spectrum.                         *)
(***************************************************************************)
UnknownMode == dsp_call = "demodulate_signal" /\ dsp_in.mode \notin DemodModes

\* C11 as stated: demodulate_signal called with a mode outside
\* {NFM, WFM, AM, USB, LSB, RAW} ends in an error and returns no audio
\* block.
C11_UnknownModeRejected ==
    UnknownMode => dsp_out.result.kind # "ndarray"

\* C11: demodulate_signal called with a mode outside
\* {NFM, WFM, AM, USB, LSB, RAW} raises no error: it returns silence, an
\* array of len(samples) rows of two zeros, whatever iq_correction made of
\* the samples.
C11_UnknownModeIsSilence ==
    UnknownMode =>
        /\ dsp_out.result.kind = "ndarray"
        /\ dsp_out.result.shape = <<Len(dsp_in.samples), 2>>
        /\ Len(dsp_out.result.rows) = Len(dsp_in.samples)
        /\ \A k \in 1..Len(dsp_out.result.rows) :
                dsp_out.result.rows[k] = <<RZero, RZero>>

C11_Witness ==
    /\ UnknownMode
    /\ dsp_in.mode = "FM"
    /\ dsp_in.samples = <<<<1, 0>>, <<0, 1>>>>
    /\ dsp_out.result.rows = <<<<RZero, RZero>>, <<RZero, RZero>>>>

\* the signal a normalizing demodulator is about to normalize is silent
ZeroPeak ==
    /\ dsp_call \in {"demodulator", "demodulate_signal"}
    /\ dsp_in.mode \in NormalizingModes
    /\ IF dsp_in.mode = "WFM"
       THEN /\ dsp_in.filtered[1] = ZeroBlock(Len(dsp_in.filtered[1]))
            /\ dsp_in.filtered[2] = ZeroBlock(Len(dsp_in.filtered[2]))
       ELSE dsp_in.filtered = ZeroBlock(Len(dsp_in.filtered))

\* C12: in every normalizing mode (NFM, WFM, AM, USB, LSB), when the signal
\* to be normalized has peak amplitude 0 the block returned holds no NaN
\* and no infinity.
C12_ZeroPeakNoNaN ==
    ZeroPeak =>
        \A k \in 1..Len(dsp_out.result.rows) :
            /\ Finite(dsp_out.result.rows[k][1])
            /\ Finite(dsp_out.result.rows[k][2])

\* iq_correction ran on samples whose estimated q_amplitude is 0 (no
\* imaginary part anywhere) or whose estimated cos_phi is 0 (I and Q fully
\* correlated)
QAmplitudeZero == dsp_call = "demodulate_signal" /\ Svv(dsp_in.samples) = 0

CosPhiZero ==
    /\ dsp_call = "demodulate_signal"
    /\ Svv(dsp_in.samples) # 0
    /\ Suu(dsp_in.samples) # 0
    /\ CosNumerator(dsp_in.samples) = 0
    /\ dsp_in.cos_rounding = "zero"

\* C13: when the estimated q_amplitude or cos_phi is zero, iq_correction
\* returns its input unchanged and has divided by no zero.
C13_DegenerateFailsSoft ==
    (QAmplitudeZero \/ CosPhiZero) =>
        /\ dsp_out.corrected = CxBlock(dsp_in.samples)
        /\ dsp_out.zero_divisors = {}

\* C18: for every block of samples, every value of the power spectrum
\* compute_fft returns lies in [-100, -20] dB, a magnitude between 0 and
\* 80 dB comes out lowered by the calibration offset of 100 dB
\* (system gain -30 plus reference level -70), and the spectrum has as many
\* bins as the block has samples.
C18_SpectrumClipped ==
    dsp_call = "compute_fft" =>
        /\ Len(dsp_out.result.rows) = Len(dsp_in.samples)
        /\ \A k \in 1..Len(dsp_out.result.rows) :
            /\ -100 <= dsp_out.result.rows[k]
            /\ dsp_out.result.rows[k] <= -20
            /\ (0 <= dsp_in.magnitude_db[k] /\ dsp_in.magnitude_db[k] <= 80)
                    => dsp_out.result.rows[k] = dsp_in.magnitude_db[k] - 100

C18_Witness ==
    /\ dsp_call = "compute_fft"
    /\ dsp_in.magnitude_db = <<300, 40>>
    /\ dsp_out.result.rows = <<-20, -60>>

(***************************************************************************)
(* Claims about the main loop.                                             *)
(***************************************************************************)
\* C14: when demodulation or the spectrum computation raises an error
\* while the main loop processes a block, the loop goes on: it is still
\* running, with the SDR device open.
C14_ProcessingErrorContinues ==
    main.error \in {"demodulate", "fft"} => (InLoop(main) /\ main.sdr_open)

\* the loop is left and the SDR device, the audio stream and the WAV file
\* are closed
LoopLeftAndClosed ==
    /\ ~InLoop(main)
    /\ ~main.sdr_open
    /\ main.stream # "running"
    /\ main.wav_file # "open"

\* C15: in the main loop, whenever the user has pressed q the program
\* eventually leaves the loop and closes the SDR device, the audio stream
\* and the WAV file, also while sample reads keep failing.
C15_QuitLeadsToExit == (InLoop(main) /\ key = "q") ~> LoopLeftAndClosed

\* C16: the I key's handler turns the pipe export on when it is off
\* (USE_PIPE true, the pipe open) and off when it is on (USE_PIPE false, the
\* pipe file closed and the pipe removed), whatever the state of audio
\* playback and WAV recording.
C16_PipeKeyToggles ==
    [][(main.pc = "key" /\ key = "I" /\ main'.pc = "tail") =>
            IF ~main.USE_PIPE
            THEN main'.USE_PIPE /\ main'.PIPE_FILE = "open" /\ main'.pipe_exists
            ELSE /\ ~main'.USE_PIPE
                 /\ main'.PIPE_FILE # "open"
                 /\ ~main'.pipe_exists]_vars

\* C17: in every reachable state of the main loop CURRENT_DEMOD is one of
\* NFM, WFM, AM, USB, LSB, RAW.
C17_CurrentDemodInModes == main.CURRENT_DEMOD \in DemodModes

(***************************************************************************)
(* Claims about the deframing loop of decode_ax25_frame.                   *)
(***************************************************************************)
\* Bit stuffing as the protocol defines it: the sender puts a 0 after every
\* five consecutive 1s of the data, so in the raw bits of a frame a stuffed
\* bit is a 0 whose five predecessors are 1s that follow a 0 or the start
\* of the frame.  Positions are 1-based.
StuffedPositions(raw) ==
    {p \in 6..Len(raw) :
        /\ raw[p] = 0
        /\ \A q \in (p - 5)..(p - 1) : raw[q] = 1
        /\ p = 6 \/ raw[p - 6] = 0}

\* out is raw without its stuffed bits: every other bit of raw is in out,
\* unchanged and in order, and out has no bit besides
IsDestuffingOf(out, raw) ==
    LET stuffed == StuffedPositions(raw)
    IN  /\ Len(out) = Len(raw) - Cardinality(stuffed)
        /\ \A p \in (1..Len(raw)) \ stuffed :
               out[p - Cardinality({q \in stuffed : q < p})] = raw[p]

\* the raw bits the deframing loop has passed: from the bit after the start
\* flag to the bit the loop stopped at
RawPassed == Slice(bit_stream, ax25.start, ax25.loop.i)

\* the frame-bit buffer before the end-flag test strips the closing flag
EmittedBits ==
    ax25.loop.frame_bits \o (IF ax25.loop.ended THEN flag ELSE <<>>)

\* C19: in a frame, the bits the deframer has put in the frame-bit buffer
\* are the raw bits it has passed with exactly the 0 after each five
\* consecutive 1s removed: every other bit is there, unchanged and in
\* order, and no bit is added.
C19_DestuffsExactly ==
    (ax_call = "decode_ax25_frame" /\ ax25.start # -1)
        => IsDestuffingOf(EmittedBits, RawPassed)

\* C19 witness: a frame with five consecutive 1s in its data was deframed:
\* a stuffed 0 was skipped, the closing flag was found, and the buffer
\* packs into the frame that was sent.
C19_Witness ==
    /\ ax_call = "decode_ax25_frame"
    /\ tx.built
    /\ ax25.loop.ended
    /\ ax25.loop.i > ax25.start + ax25.loop.iters
    /\ ax25.loop.frame_bits # <<>>
    /\ PackBytes(ax25.loop.frame_bits) = tx.frame

\* the positions, at or after the end of the start flag, where the flag
\* pattern lies in the incoming stream
LaterFlags == {k \in FlagPositions(bit_stream) : k >= ax25.start}

NextFlag == CHOOSE k \in LaterFlags : \A m \in LaterFlags : k <= m

\* C20: the deframer ends the frame exactly when the flag 01111110 occurs
\* again in the incoming stream, also when it is the last 8 bits of the
\* stream; it then stops right after that flag, and the frame bits are the
\* destuffed bits between the two flags, without the flag.
C20_EndsExactlyAtFlag ==
    (ax_call = "decode_ax25_frame" /\ ax25.start # -1)
        => /\ ax25.loop.ended <=> LaterFlags # {}
           /\ ax25.loop.ended =>
                /\ ax25.loop.i = NextFlag + 8
                /\ IsDestuffingOf(ax25.loop.frame_bits,
                                  Slice(bit_stream, ax25.start, NextFlag))

(***************************************************************************)
(* Claims about byte-packing in decode_ax25_frame.                         *)
(***************************************************************************)
\* bit k (k = 0 is the least significant) of byte b
BitOf(b, k) == (b \div (2 ^ k)) % 2

\* C21: the bytes handed to payload parsing are the frame bits taken 8 at a
\* time in order, the k-th bit of each group (k = 0..7) being bit k of the
\* byte; a trailing group of fewer than 8 bits gives no byte.
C21_BytesLsbFirst ==
    (ax_call = "decode_ax25_frame" /\ ax25.parsed /\ ax25.start # -1)
        => /\ Len(ax25.frame_bytes) = Len(ax25.loop.frame_bits) \div 8
           /\ \A n \in 1..Len(ax25.frame_bytes) :
                /\ ax25.frame_bytes[n] \in 0..255
                /\ \A k \in 0..7 :
                     BitOf(ax25.frame_bytes[n], k)
                        = At(ax25.loop.frame_bits, 8 * (n - 1) + k)

\* C21 witness: frame bits that end in a group of fewer than 8 bits were
\* packed into at least two bytes, one of them not a bit palindrome.
C21_Witness ==
    /\ ax_call = "decode_ax25_frame"
    /\ ax25.parsed
    /\ Len(ax25.loop.frame_bits) % 8 # 0
    /\ Len(ax25.frame_bytes) >= 2
    /\ \E n \in 1..Len(ax25.frame_bytes) :
          BitOf(ax25.frame_bytes[n], 1) # BitOf(ax25.frame_bytes[n], 6)

(***************************************************************************)
(* Claims about letter and word gaps in decode_morse.                      *)
(***************************************************************************)
\* gap g (in samples) is strictly greater than n dots.  morse.dot is the
\* exact value of dot_duration in samples; where the two sides are exactly
\* equal the floating-point values compare as the rounding flag says.
ExceedsDots(g, n, rounds_over) ==
    \/ g * morse.dot[2] > n * morse.dot[1]
    \/ g * morse.dot[2] = n * morse.dot[1] /\ rounds_over

\* the gaps (gap i follows pulse i, 1-based) over 3 dots and over 7 dots
LetterBreaks ==
    {i \in 1..Len(morse.gaps) : ExceedsDots(morse.gaps[i], 3, fp.letter)}

WordBreaks ==
    {i \in 1..Len(morse.gaps) : ExceedsDots(morse.gaps[i], 7, fp.word)}

\* where pulse p belongs in morse_symbols if letters end exactly at the
\* letter breaks and one space follows each word break
SymbolIndex(p) ==
    1 + Cardinality({i \in LetterBreaks : i < p})
      + Cardinality({i \in WordBreaks : i < p})

\* the first and the last pulse of the letter of pulse p
LetterFirst(p) ==
    1 + (CHOOSE i \in {0} \cup {b \in LetterBreaks : b < p} :
            \A b \in LetterBreaks : b < p => b <= i)

LetterLast(p) ==
    CHOOSE i \in {Len(morse.durations)} \cup {b \in LetterBreaks : b >= p} :
        \A b \in LetterBreaks : b >= p => i <= b

Decoded == morse_call = "decode_morse" /\ morse.kind = "ok"
                /\ Len(morse.durations) > 0

\* C22: the gap after a pulse ends the current letter exactly when it is
\* strictly greater than 3 dots and adds one space exactly when it is
\* strictly greater than 7 dots; a gap of at most 3 dots keeps the next
\* pulse in the same letter; the last letter is always emitted.
C22_GapsSplitLetters ==
    Decoded =>
        /\ WordBreaks \subseteq LetterBreaks
        /\ Len(morse.symbols)
              = Cardinality(LetterBreaks) + 1 + Cardinality(WordBreaks)
        /\ \A p \in 1..Len(morse.durations) :
              /\ morse.symbols[SymbolIndex(p)] # <<32>>
              /\ Len(morse.symbols[SymbolIndex(p)])
                    = LetterLast(p) - LetterFirst(p) + 1
              /\ SymbolIndex(p) = SymbolIndex(LetterFirst(p))
        /\ \A w \in WordBreaks : morse.symbols[SymbolIndex(w) + 1] = <<32>>

\* C22 witness: a window with a gap of at most 3 dots and a gap strictly
\* between 3 and 7 dots was decoded into two letters.
C22_Witness ==
    /\ Decoded
    /\ \E i \in 1..Len(morse.gaps) : i \notin LetterBreaks
    /\ \E i \in LetterBreaks :
          /\ i \notin WordBreaks
          /\ morse.gaps[i] * morse.dot[2] > 3 * morse.dot[1]
    /\ Len(morse.symbols) = 2

\* a gap over 7 dots was decoded into a letter, a space and a letter
WordGapDecoded ==
    /\ Decoded
    /\ WordBreaks # {}
    /\ Len(morse.symbols) = 3

\* a gap of exactly 3 dots was decoded
EqualGapDecoded ==
    /\ Decoded
    /\ \E i \in 1..Len(morse.gaps) :
          morse.gaps[i] * morse.dot[2] = 3 * morse.dot[1]

(***************************************************************************)
(* Claims about edge pairing in decode_morse.                              *)
(***************************************************************************)
\* the values of a sequence
Range(s) == {s[k] : k \in 1..Len(s)}

\* the rising edges that a falling edge follows, and the falling edges
\* that a rising edge precedes, as indices of np.diff (0-based)
MatchedRises(sig) ==
    {r - 1 : r \in {q \in RisingEdges(sig) :
                       \E f \in FallingEdges(sig) : q < f}}

MatchedFalls(sig) ==
    {f - 1 : f \in {q \in FallingEdges(sig) :
                       \E r \in RisingEdges(sig) : r < q}}

\* decode_morse reached the pairing step: both kinds of edge were found
PairingDone ==
    /\ morse_call = "decode_morse"
    /\ RisingEdges(Signals(envelope)) # {}
    /\ FallingEdges(Signals(envelope)) # {}

\* C23: after edge pairing as many rises as falls are kept, the i-th kept
\* fall is after the i-th kept rise, every gap (next rise minus previous
\* fall) is positive, and the edges discarded are only a leading fall no
\* rise precedes and a trailing rise no fall follows.
C23_EdgesPaired ==
    PairingDone =>
        /\ morse.kind = "ok"
        /\ Len(morse.rise_times) = Len(morse.fall_times)
        /\ \A i \in 1..Len(morse.rise_times) :
              morse.fall_times[i] > morse.rise_times[i]
        /\ \A i \in 1..(Len(morse.rise_times) - 1) :
              morse.rise_times[i + 1] > morse.fall_times[i]
        /\ morse.rise_times = Ascending(MatchedRises(Signals(envelope)))
        /\ morse.fall_times = Ascending(MatchedFalls(Signals(envelope)))
        /\ Cardinality(RisingEdges(Signals(envelope))) - Len(morse.rise_times)
              \in {0, 1}
        /\ Cardinality(FallingEdges(Signals(envelope))) - Len(morse.fall_times)
              \in {0, 1}
        /\ Len(morse.durations) > 0 =>
              /\ morse.durations
                    = [i \in 1..Len(morse.rise_times) |->
                         morse.fall_times[i] - morse.rise_times[i]]
              /\ \A i \in 1..Len(morse.gaps) : morse.gaps[i] > 0

\* C23 witness: a window that begins keyed and ends keyed was paired: the
\* leading fall and the trailing rise were discarded and at least two
\* pulses were kept.
C23_Witness ==
    /\ PairingDone
    /\ Cardinality(RisingEdges(Signals(envelope))) > Len(morse.rise_times)
    /\ Cardinality(FallingEdges(Signals(envelope))) > Len(morse.fall_times)
    /\ Len(morse.durations) >= 2
    /\ Len(morse.gaps) >= 1

(***************************************************************************)
(* Claims about the IQ corrector as the pre-step of demodulate_signal.     *)
(***************************************************************************)
\* C24: demodulate_signal hands the block through iq_correction to the
\* demodulator in every mode except RAW; in RAW mode the corrector is not
\* run, so the result is the real part of the samples as they came in.
C24_RawSkipsCorrection ==
    dsp_call = "demodulate_signal" =>
        /\ dsp_in.mode \in NormalizingModes =>
              dsp_in.filtered
                 \in ToNormalize(dsp_in.mode,
                                 iq_correction(dsp_in.samples,
                                               dsp_in.cos_rounding).samples)
        /\ dsp_in.mode = "RAW" =>
              dsp_out.result.rows
                 = [k \in 1..Len(dsp_in.samples) |->
                      <<RInt(dsp_in.samples[k][1])>>]

(***************************************************************************)
(* Claims about the SSB bracket of the classifier.                         *)
(***************************************************************************)
\* C25: the label is SSB exactly when the occupied bandwidth lies within
\* 2.4-3 kHz and the spectral flatness is below 0.2; in particular a
\* bandwidth below 2.4 kHz is never labelled SSB.
C25_SsbBracket ==
    cls_call = "classify_signal"
        => (label = "SSB"
               <=> (/\ 2400 <= features.signal_bw
                    /\ features.signal_bw <= 3000
                    /\ features.spectral_flatness < 200))

(***************************************************************************)
(* Claims about the demodulations of one iteration of the main loop.       *)
(***************************************************************************)
\* C30: in every iteration of the main loop the block read is demodulated
\* at most once, and so at most one audio block is appended to
\* audio_buffer for it, whether playback and the pipe export are on or off.
C30_DemodulatedAtMostOnce ==
    InLoop(main) => main.demodulated <= 1

(***************************************************************************)
(* Claims about the spectrum line and the gain.                            *)
(***************************************************************************)
\* a spectrum line has been handed to the display, for a block of
\* 2^SAMPLES x 256 samples with SAMPLES from 5 to 12
LineDrawn ==
    /\ ctl.pc = "loop"
    /\ \E k \in 5..12 : ctl.num_samples = (2 ^ k) * 256

\* C26: every spectrum line handed to the display has 1024 bins and the
\* length of the frequency axis computed for it, for every SAMPLES from 5
\* to 12.
C26_SpectrumLineHas1024Bins ==
    LineDrawn => (ctl.freq_data = 1024 /\ ctl.freq_data = ctl.freq_bins)

\* C29: in the loop gainindex is within -1 .. len(valid_gains) - 1, it is
\* -1 exactly when the device's gain is 'auto', and otherwise the device's
\* gain is valid_gains[gainindex].
C29_GainIndexMatchesGain ==
    ctl.pc = "loop" =>
        /\ ctl.gainindex \in -1..(MaxGains - 1)
        /\ ctl.gainindex = -1 <=> ctl.gain.auto
        /\ ctl.gainindex # -1 =>
              ctl.gain = Manual(At(valid_gains_db, ctl.gainindex))

(***************************************************************************)
(* Claims about audio_buffer and audio_callback.                           *)
(***************************************************************************)
\* the rows of the queue the callback was called on, in FIFO order
GivenRows == Concatenate(aud.given)

\* C27: audio_callback run alone on a queue of n rows: if n >= frames it
\* outputs the first frames rows in FIFO order and leaves the remaining
\* n - frames rows, in order, as one block (an empty queue if n = frames);
\* if n < frames it outputs frames rows of silence and leaves the queue as
\* it was.
C27_CallbackAlone ==
    aud.pc = "called" =>
        /\ aud.cb = "idle"
        /\ Len(aud.outdata) = aud.frames
        /\ IF Len(GivenRows) >= aud.frames
           THEN /\ aud.outdata = SubSeq(GivenRows, 1, aud.frames)
                /\ aud.queue
                      = IF Len(GivenRows) = aud.frames THEN <<>>
                        ELSE <<SubSeq(GivenRows, aud.frames + 1,
                                      Len(GivenRows))>>
           ELSE /\ \A k \in 1..aud.frames : aud.outdata[k] = 0
                /\ aud.queue = aud.given

\* C27 witness: the callback was called on a queue of several blocks with
\* more rows than it was asked for, and left a remainder.
C27_Witness ==
    /\ aud.pc = "called"
    /\ Len(aud.given) >= 2
    /\ Len(GivenRows) > aud.frames
    /\ Len(aud.queue) = 1
    /\ aud.outdata # Silence(aud.frames)

\* the rows the main loop has appended so far
AppendedRows == 1..(aud.produced * MaxRows)

\* the rows the callback holds between its clear and its append
HeldRows ==
    IF aud.cb = "append"
    THEN Range(Slice(aud.data, aud.frames, Len(aud.data))) ELSE {}

Increasing(s) == \A i, j \in 1..Len(s) : i < j => s[i] < s[j]

\* C28: with the callback and the main loop interleaved, every row the main
\* loop has appended has been played or written to the WAV file or is
\* still waiting (no block is lost; fewer than 24 blocks are appended, so
\* none is evicted), the rows are played in the order appended, and the
\* rows waiting in the queue are in the order appended (no block is behind
\* a later one).
C28_BlocksInOrderNoneLost ==
    aud.pc = "run" =>
        /\ \A r \in AppendedRows :
              r \in Range(aud.played) \cup Range(aud.wav)
                     \cup Range(Concatenate(aud.queue)) \cup HeldRows
        /\ Increasing(aud.played)
        /\ Increasing(Concatenate(aud.queue))
        /\ aud.cb # "raised"
        /\ aud.mpc # "crashed"

====
